---- MODULE Spec2Model ----
(***************************************************************************)
(* A model of the IMQS updater client (package updater): the manifest of a *)
(* directory tree and its envelope digest, the SyncDir readiness gate, the *)
(* reconciler that stages a release in 'next', and the Apply sequence that *)
(* mirrors 'next' onto 'current' between the service stop/start hooks.     *)
(*                                                                         *)
(* Modelling conventions                                                   *)
(*  - A file body is a string of bytes; its size is the string's length.   *)
(*  - SHA-256 is modelled as collision free: a digest is identified with   *)
(*    the byte stream that was fed to the hash.                            *)
(*  - A local directory (c:/imqsbin, c:/imqsbin_next, ...) is a record of  *)
(*    its entries (path -> none / dir / file with body and mtime) and its  *)
(*    two sidecar files manifest.hash and manifest.content.                *)
(*  - A step of the Run loop is what its goroutine does around one call    *)
(*    that blocks: an HTTP GET, a run of sc or of robocopy, time.Sleep.    *)
(*    The publisher, the services, the service host and the clock are      *)
(*    processes of their own and act between any two steps.                *)
(*  - A file is stamped with the time the clock shows when it is written.  *)
(***************************************************************************)
EXTENDS Integers, Sequences, FiniteSets, TLC

VARIABLES
    fs,      \* fs[d] = [cur |-> Dir, next |-> Dir] : the two local trees of SyncDir d
    pub,     \* pub[d] = what the deploy server serves for SyncDir d
    svc,     \* svc[s] = state of the Windows service s
    now,     \* the filesystem clock that stamps the mtime of a written file
    pc,      \* position of the Run loop (or of the harness of a function-level specification)
    apply,   \* the locals of the Apply in progress, and a record of what it has done
    res      \* results recorded by the function-level specifications

vars == <<fs, pub, svc, now, pc, apply, res>>

-----------------------------------------------------------------------------
(* Bounds *)

\* Timestamps range over 0..MaxTime.
MaxTime == 1

-----------------------------------------------------------------------------
(* Paths and directory entries *)

ManifestFilename_Content == "manifest.content"
ManifestFilename_Hash == "manifest.hash"

\* The relative paths of the model, in the order ioutil.ReadDir + recursion visits
\* them (entries sorted by name at each level, a directory before its children).
PathOrder == <<"a", "ab", "aba", "ababa", "ba", "d", "d/a", "d/manifest.content", "d/manifest.hash",
               "e", "manifest.content", "manifest.hash", "servicenames">>

\* The paths of the trees of a SyncDir.
Paths == {"a", "d", "d/a", "e", "servicenames"}

\* path.Dir: the parent directory of a path ("" is the root).
Parent(p) == IF p \in {"d/a", "d/manifest.content", "d/manifest.hash"} THEN "d" ELSE ""

RECURSIVE Ancestors(_)
Ancestors(p) == IF Parent(p) = "" THEN {} ELSE {Parent(p)} \cup Ancestors(Parent(p))

NoEntry == [kind |-> "none", body |-> "", mtime |-> 0]
DirEntry == [kind |-> "dir", body |-> "", mtime |-> 0]
FileEntry(b, t) == [kind |-> "file", body |-> b, mtime |-> t]

\* The sidecar manifest.hash. hex: the bytes the leading hex digits encode;
\* tail: what follows the hex digits in the file. st is "ok", "missing", or
\* "unreadable": the name exists and cannot be opened as a file (a directory of
\* that name), so that reading it and writing it fail.
NoHashFile == [st |-> "missing", hex |-> "", tail |-> ""]
\* The sidecar manifest.content, as the JSON document it holds.
NoContentFile == [st |-> "missing", Files |-> <<>>, Dirs |-> <<>>]

EmptyEnts == [p \in Paths |-> NoEntry]
\* A local directory. ioerr: reading the tree fails with an I/O error. absent:
\* the root directory does not exist, so that nothing is in it. nopath: the root
\* cannot be created (LocalPath is empty, or lies below a regular file).
EmptyDir == [ents |-> EmptyEnts, mhash |-> NoHashFile, mcontent |-> NoContentFile,
             ioerr |-> FALSE, absent |-> FALSE, nopath |-> FALSE]
\* A directory that does not exist yet, and one that never will.
AbsentDir == [EmptyDir EXCEPT !.absent = TRUE]
NoDir == [EmptyDir EXCEPT !.absent = TRUE, !.nopath = TRUE]

\* A path is on disk with every ancestor a directory.
Visible(ents, p) == ents[p].kind # "none" /\ \A q \in Ancestors(p) : ents[q].kind = "dir"

WellFormedEnts(ents) == \A p \in Paths : ents[p].kind # "none" => Visible(ents, p)

-----------------------------------------------------------------------------
(* Digest and hex *)

\* sha256.Sum256 of a file body followed by hex.EncodeToString: a string of hex
\* digits of one length (three here, 64 in the code), another for each body.
\* The digest of "x" begins and ends with the same digit, as the SHA-256 of the
\* bytes "286" does (0032...df60).
Sha256Hex(body) ==
    CASE body = "x" -> "aba"
      [] body = "y" -> "0c1"
      [] body = "z" -> "1f4"
      [] body = "s1" -> "7e2"
      [] body = "s2" -> "93b"

\* hex.EncodeToString of a digest, as the bytes of a manifest.hash file.
EncodeToString(digest) == [st |-> "ok", hex |-> digest, tail |-> ""]

\* hex.DecodeString of the bytes of a manifest.hash file: any byte that is not a
\* hex digit is an error.
DecodeString(f) ==
    IF f.tail = "" THEN [err |-> "none", bytes |-> f.hex]
    ELSE [err |-> "hex", bytes |-> ""]

-----------------------------------------------------------------------------
(* Manifest *)

ManifestFile(name, h) == [Name |-> name, Hash |-> h]

\* The names of the files and of the directories of a tree, in traversal order.
\* An entry whose path relative to the root is one of the two sidecar names is
\* passed over. (In the trees of a SyncDir the sidecars of the root are kept
\* apart from ents, in mhash and mcontent.)
scanPathRecursive(ents) ==
    LET listed == SelectSeq(PathOrder,
                      LAMBDA p : /\ p \in DOMAIN ents
                                 /\ ~(p = ManifestFilename_Content \/ p = ManifestFilename_Hash)
                                 /\ Visible(ents, p))
    IN [Files |-> SelectSeq(listed, LAMBDA p : ents[p].kind = "file"),
        Dirs  |-> SelectSeq(listed, LAMBDA p : ents[p].kind = "dir")]

\* scanPathRecursive followed by calculateHashes.
calculateHashes(ents, names) ==
    [i \in 1..Len(names) |-> ManifestFile(names[i], Sha256Hex(ents[names[i]].body))]

BuildManifest(dir) ==
    IF dir.ioerr \/ dir.absent THEN [err |-> "io", Files |-> <<>>, Dirs |-> <<>>]
    ELSE LET s == scanPathRecursive(dir.ents)
         IN [err |-> "none", Files |-> calculateHashes(dir.ents, s.Files), Dirs |-> s.Dirs]

\* ioutil.ReadFile of manifest.content followed by json.Unmarshal into a Manifest:
\* only the fields Files and Dirs are kept.
ReadManifest(dir) ==
    IF dir.mcontent.st = "ok"
    THEN [err |-> "none", Files |-> dir.mcontent.Files, Dirs |-> dir.mcontent.Dirs]
    ELSE [err |-> dir.mcontent.st, Files |-> <<>>, Dirs |-> <<>>]

RECURSIVE FeedFiles(_)
FeedFiles(files) ==
    IF files = <<>> THEN ""
    ELSE files[1].Name \o files[1].Hash \o FeedFiles(Tail(files))

RECURSIVE FeedDirs(_)
FeedDirs(dirs) == IF dirs = <<>> THEN "" ELSE dirs[1] \o FeedDirs(Tail(dirs))

\* Manifest.hash: the envelope digest, over each file's Name and Hash and then
\* each directory's path, in the stored order.
hash(m) == FeedFiles(m.Files) \o FeedDirs(m.Dirs)

\* Manifest.isConsistentWithHash: "none" for nil, else the kind of error.
isConsistentWithHash(m, dir) ==
    IF dir.mhash.st # "ok" THEN "io"
    ELSE LET d == DecodeString(dir.mhash)
         IN IF d.err # "none" THEN "hex"
            ELSE IF hash(m) # d.bytes THEN "ErrManifestInconsistent"
            ELSE "none"

isManifestPairConsistent(dir) ==
    LET m == ReadManifest(dir)
    IN IF m.err # "none" THEN m.err ELSE isConsistentWithHash(m, dir)

\* hashToFileMap()[h] as an index into m.Files: a later entry with the same hash
\* replaces an earlier one; 0 stands for nil.
hashToFileMap(m, h) ==
    LET hit == [i \in 1..Len(m.Files) |-> m.Files[i].Hash = h]
        RECURSIVE last(_)
        last(i) == IF i = 0 THEN 0 ELSE IF hit[i] THEN i ELSE last(i - 1)
    IN last(Len(m.Files))

\* nameToFileMap()[n] != nil and nameToDirMap()[n].
nameToFileMap(m, n) == \E i \in 1..Len(m.Files) : m.Files[i].Name = n
nameToDirMap(m, n) == \E i \in 1..Len(m.Dirs) : m.Dirs[i] = n

-----------------------------------------------------------------------------
(* SyncDir *)

\* As manifestHashIsReadableAndNew, any error on current/manifest.hash taken for
\* "file not found".
manifestHashIsReadableAndNew_anyError(sd) ==
    IF sd.next.mhash.st # "ok" THEN FALSE
    ELSE IF sd.cur.mhash.st # "ok" THEN TRUE
    ELSE sd.cur.mhash # sd.next.mhash

\* SyncDir.manifestHashIsReadableAndNew. sd = [cur |-> Dir, next |-> Dir].
manifestHashIsReadableAndNew(sd) ==
    IF sd.next.mhash.st # "ok" THEN FALSE                    \* e2 != nil
    ELSE IF sd.cur.mhash.st # "ok"                           \* e1 != nil
         THEN sd.cur.mhash.st = "missing"                    \* os.IsNotExist
         ELSE sd.cur.mhash # sd.next.mhash                   \* !bytes.Equal(f1, f2)

\* As isReadyToApply, the manifest of the bytes on disk left out: manifest.content
\* is compared with manifest.hash alone.
isReadyToApply_trustContent(sd) ==
    IF ~manifestHashIsReadableAndNew(sd) THEN [ready |-> FALSE, err |-> "none"]
    ELSE LET file == ReadManifest(sd.next)
         IN IF file.err # "none" THEN [ready |-> FALSE, err |-> file.err]
            ELSE LET c == isConsistentWithHash(file, sd.next)
                 IN [ready |-> c = "none", err |-> c]

\* SyncDir.isReadyToApply: the pair (bool, error), err = "none" for nil.
isReadyToApply(sd) ==
    IF ~manifestHashIsReadableAndNew(sd) THEN [ready |-> FALSE, err |-> "none"]
    ELSE LET truth == BuildManifest(sd.next)
         IN IF truth.err # "none" THEN [ready |-> FALSE, err |-> truth.err]
            ELSE LET file == ReadManifest(sd.next)
                 IN IF file.err # "none" THEN [ready |-> FALSE, err |-> file.err]
                    ELSE IF hash(truth) # hash(file) THEN [ready |-> FALSE, err |-> "none"]
                    ELSE LET c == isConsistentWithHash(truth, sd.next)
                         IN [ready |-> c = "none", err |-> c]

-----------------------------------------------------------------------------
(* The deploy server *)

\* What the server serves for one SyncDir: manifest.hash, manifest.content and
\* the bytes of each file (ok = FALSE: the GET does not return 200).
NotServed == [ok |-> FALSE, body |-> ""]
Served(b) == [ok |-> TRUE, body |-> b]

\* Manifest.Write: the two sidecars of a manifest.
WriteContent(m) == [st |-> "ok", Files |-> m.Files, Dirs |-> m.Dirs]
WriteHash(m) == EncodeToString(hash(m))

\* A release: the tree 'ents' after the buildmanifest command, as served.
Release(ents) ==
    LET m == BuildManifest([EmptyDir EXCEPT !.ents = ents])
    IN [hash    |-> WriteHash(m),
        content |-> WriteContent(m),
        files   |-> [p \in Paths |-> IF ents[p].kind = "file" /\ Visible(ents, p)
                                     THEN Served(ents[p].body) ELSE NotServed]]

\* Nothing published yet: every GET is a 404.
NoRelease == [hash |-> NoHashFile, content |-> NoContentFile, files |-> [p \in Paths |-> NotServed]]

-----------------------------------------------------------------------------
(* File operations on the entries of a local tree *)

Size(e) == IF e.kind = "file" THEN Len(e.body) ELSE 0

\* os.Stat succeeds on both paths and ModTime and Size are equal.
areFileDatesAndSizesEqual(src, dst) ==
    /\ src.kind # "none"
    /\ dst.kind # "none"
    /\ src.mtime = dst.mtime
    /\ Size(src) = Size(dst)

\* A regular file can be created or truncated at p.
CanCreate(ents, p) ==
    /\ ents[p].kind # "dir"
    /\ \A q \in Ancestors(p) : ents[q].kind = "dir"

\* os.RemoveAll(p): p and everything under it.
RemoveAll(ents, p) ==
    [q \in Paths |-> IF q = p \/ p \in Ancestors(q) THEN NoEntry ELSE ents[q]]

\* os.MkdirAll(p): p and its missing parents become directories.
MkdirAll(ents, p) ==
    [q \in Paths |-> IF q = p \/ q \in Ancestors(p) THEN DirEntry ELSE ents[q]]

-----------------------------------------------------------------------------
(* The reconciler: Updater.downloadContentHttp *)

Op(o, p) == [op |-> o, path |-> p]

\* As StrayFiles, no file of next ever found to be stray.
StrayFiles_keepAll(actual, ideal) == SelectSeq(<<>>, LAMBDA n : ~nameToFileMap(ideal, n))

\* "Delete files not present in 'next' manifest": the files of actual_next (by
\* name) that the ideal manifest does not name.
StrayFiles(actual, ideal) ==
    SelectSeq([i \in 1..Len(actual.Files) |-> actual.Files[i].Name],
              LAMBDA n : ~nameToFileMap(ideal, n))

\* "Delete directories not present in 'next' manifest".
StrayDirs(actual, ideal) == SelectSeq(actual.Dirs, LAMBDA n : ~nameToDirMap(ideal, n))

RECURSIVE RemoveFiles(_, _)
RemoveFiles(ents, names) ==
    IF names = <<>> THEN ents
    ELSE RemoveFiles([ents EXCEPT ![names[1]] = NoEntry], Tail(names))

RECURSIVE RemoveDirs(_, _)
RemoveDirs(ents, names) ==
    IF names = <<>> THEN ents
    ELSE RemoveDirs(RemoveAll(ents, names[1]), Tail(names))

\* "Create directories in 'next' manifest". st = [ents, log, err].
RECURSIVE CreateDirs(_, _)
CreateDirs(st, dirs) ==
    IF dirs = <<>> \/ st.err # "none" THEN st
    ELSE LET p == dirs[1]
         IN IF Visible(st.ents, p)                         \* os.Stat succeeds
            THEN CreateDirs(st, Tail(dirs))
            ELSE IF \E q \in Ancestors(p) : st.ents[q].kind = "file"
            THEN [st EXCEPT !.err = "mkdir"]
            ELSE CreateDirs([st EXCEPT !.ents = MkdirAll(st.ents, p),
                                       !.log = Append(st.log, Op("mkdir", p))],
                            Tail(dirs))

\* As RetrieveFile, a file of next with the digest counting as downloaded under
\* whatever name it has.
RetrieveFile_anyName(st, file, cur, actual_prev, actual_next, srv, fails, t) ==
    LET outFile == file.Name
        actual_prev_i == hashToFileMap(actual_prev, file.Hash)
        actual_next_i == hashToFileMap(actual_next, file.Hash)
    IN IF actual_prev_i # 0
       THEN LET prev == actual_prev.Files[actual_prev_i].Name
            IN IF areFileDatesAndSizesEqual(cur.ents[prev], st.ents[outFile])
               THEN [st EXCEPT !.log = Append(st.log, Op("ready", outFile))]
               ELSE IF ~CanCreate(st.ents, outFile)
               THEN [st EXCEPT !.err = "copy"]
               ELSE [st EXCEPT !.ents[outFile] = FileEntry(cur.ents[prev].body, t),
                               !.log = Append(st.log, Op("copy", outFile))]
       ELSE IF actual_next_i # 0
       THEN [st EXCEPT !.log = Append(st.log, Op("ready", outFile))]
       ELSE IF outFile \in fails \/ ~srv.files[outFile].ok
       THEN [st EXCEPT !.log = Append(st.log, Op("get", outFile)), !.err = "http"]
       ELSE IF ~CanCreate(st.ents, outFile)
       THEN [st EXCEPT !.log = Append(st.log, Op("get", outFile)), !.err = "write"]
       ELSE [st EXCEPT !.ents[outFile] = FileEntry(srv.files[outFile].body, t),
                       !.log = Append(st.log, Op("new", outFile))]

\* As RetrieveFile, the comparison of dates and sizes left out: a file whose digest
\* is in current is copied from there every time.
RetrieveFile_alwaysCopy(st, file, cur, actual_prev, actual_next, srv, fails, t) ==
    LET outFile == file.Name
        actual_prev_i == hashToFileMap(actual_prev, file.Hash)
        actual_next_i == hashToFileMap(actual_next, file.Hash)
    IN IF actual_prev_i # 0
       THEN LET prev == actual_prev.Files[actual_prev_i].Name
            IN IF ~CanCreate(st.ents, outFile)
               THEN [st EXCEPT !.err = "copy"]
               ELSE [st EXCEPT !.ents[outFile] = FileEntry(cur.ents[prev].body, t),
                               !.log = Append(st.log, Op("copy", outFile))]
       ELSE IF actual_next_i # 0 /\ actual_next.Files[actual_next_i].Name = file.Name
       THEN [st EXCEPT !.log = Append(st.log, Op("ready", outFile))]
       ELSE IF outFile \in fails \/ ~srv.files[outFile].ok
       THEN [st EXCEPT !.log = Append(st.log, Op("get", outFile)), !.err = "http"]
       ELSE IF ~CanCreate(st.ents, outFile)
       THEN [st EXCEPT !.log = Append(st.log, Op("get", outFile)), !.err = "write"]
       ELSE [st EXCEPT !.ents[outFile] = FileEntry(srv.files[outFile].body, t),
                       !.log = Append(st.log, Op("new", outFile))]

\* As RetrieveFile, the destination file created before the GET is made: a GET
\* that fails leaves it empty.
RetrieveFile_createFirst(st, file, cur, actual_prev, actual_next, srv, fails, t) ==
    LET outFile == file.Name
        actual_prev_i == hashToFileMap(actual_prev, file.Hash)
        actual_next_i == hashToFileMap(actual_next, file.Hash)
    IN IF actual_prev_i # 0
       THEN LET prev == actual_prev.Files[actual_prev_i].Name
            IN IF areFileDatesAndSizesEqual(cur.ents[prev], st.ents[outFile])
               THEN [st EXCEPT !.log = Append(st.log, Op("ready", outFile))]
               ELSE IF ~CanCreate(st.ents, outFile)
               THEN [st EXCEPT !.err = "copy"]
               ELSE [st EXCEPT !.ents[outFile] = FileEntry(cur.ents[prev].body, t),
                               !.log = Append(st.log, Op("copy", outFile))]
       ELSE IF actual_next_i # 0 /\ actual_next.Files[actual_next_i].Name = file.Name
       THEN [st EXCEPT !.log = Append(st.log, Op("ready", outFile))]
       ELSE IF ~CanCreate(st.ents, outFile)
       THEN [st EXCEPT !.log = Append(st.log, Op("get", outFile)), !.err = "write"]
       ELSE IF outFile \in fails \/ ~srv.files[outFile].ok
       THEN [st EXCEPT !.ents[outFile] = FileEntry("", t),
                       !.log = Append(st.log, Op("get", outFile)), !.err = "http"]
       ELSE [st EXCEPT !.ents[outFile] = FileEntry(srv.files[outFile].body, t),
                       !.log = Append(st.log, Op("new", outFile))]

\* One iteration of "Retrieve (via copy or download) files in 'next' manifest".
RetrieveFile(st, file, cur, actual_prev, actual_next, srv, fails, t) ==
    LET outFile == file.Name
        actual_prev_i == hashToFileMap(actual_prev, file.Hash)
        actual_next_i == hashToFileMap(actual_next, file.Hash)
    IN IF actual_prev_i # 0
       THEN LET prev == actual_prev.Files[actual_prev_i].Name
            IN IF areFileDatesAndSizesEqual(cur.ents[prev], st.ents[outFile])
               THEN [st EXCEPT !.log = Append(st.log, Op("ready", outFile))]
               ELSE IF ~CanCreate(st.ents, outFile)
               THEN [st EXCEPT !.err = "copy"]
               ELSE [st EXCEPT !.ents[outFile] = FileEntry(cur.ents[prev].body, t),
                               !.log = Append(st.log, Op("copy", outFile))]
       ELSE IF actual_next_i # 0 /\ actual_next.Files[actual_next_i].Name = file.Name
       THEN [st EXCEPT !.log = Append(st.log, Op("ready", outFile))]
       ELSE IF outFile \in fails \/ ~srv.files[outFile].ok
       THEN [st EXCEPT !.log = Append(st.log, Op("get", outFile)), !.err = "http"]
       ELSE IF ~CanCreate(st.ents, outFile)
       THEN [st EXCEPT !.log = Append(st.log, Op("get", outFile)), !.err = "write"]
       ELSE [st EXCEPT !.ents[outFile] = FileEntry(srv.files[outFile].body, t),
                       !.log = Append(st.log, Op("new", outFile))]

\* The loop "Retrieve (via copy or download) files in 'next' manifest": the k-th
\* file is handled when the clock shows ts[k].
RECURSIVE RetrieveFiles(_, _, _, _, _, _, _, _)
RetrieveFiles(st, files, cur, actual_prev, actual_next, srv, fails, ts) ==
    IF files = <<>> \/ st.err # "none" THEN st
    ELSE RetrieveFiles(RetrieveFile(st, files[1], cur, actual_prev, actual_next, srv, fails, ts[1]),
                       Tail(files), cur, actual_prev, actual_next, srv, fails, Tail(ts))

\* The result of downloadContentHttp: the staging tree afterwards, the error
\* returned ("none" for nil) and the file operations in the order they were made.
Outcome(nx, e, l) == [next |-> nx, err |-> e, log |-> l]

\* Where downloadContentHttp stands when it enters the retrieval loop: the
\* staging tree, the error it has returned if it has ("none" if it goes on), the
\* file operations made, and its locals: the files of the ideal manifest and the
\* manifests of current and of next as they were on disk.
Begun(nx, e, l, fl, pv, an) ==
    [next |-> nx, err |-> e, log |-> l, files |-> fl, prev |-> pv, anext |-> an]

NoManifest == [err |-> "none", Files |-> <<>>, Dirs |-> <<>>]

\* As beginDownloadContent, the consistency of manifest.content and manifest.hash
\* looked at after the tree has been pruned and the directories created.
beginDownloadContent_checkLast(sd, srv, fails) ==
    IF ManifestFilename_Content \in fails \/ srv.content.st = "missing"
    THEN Begun(sd.next, "http", <<>>, <<>>, NoManifest, NoManifest)
    ELSE
    LET next1 == [sd.next EXCEPT !.mcontent = srv.content]
        pair == isManifestPairConsistent(next1)
        actual_manifest_prev == BuildManifest(sd.cur)
        ideal_manifest_next == ReadManifest(next1)
        actual_manifest_next == BuildManifest(next1)
    IN IF actual_manifest_prev.err # "none"
       THEN Begun(next1, actual_manifest_prev.err, <<>>, <<>>, NoManifest, NoManifest)
       ELSE IF ideal_manifest_next.err # "none"
       THEN Begun(next1, ideal_manifest_next.err, <<>>, <<>>, NoManifest, NoManifest)
       ELSE IF actual_manifest_next.err # "none"
       THEN Begun(next1, actual_manifest_next.err, <<>>, <<>>, NoManifest, NoManifest)
       ELSE
       LET strayF == StrayFiles(actual_manifest_next, ideal_manifest_next)
           strayD == StrayDirs(actual_manifest_next, ideal_manifest_next)
           pruned == RemoveDirs(RemoveFiles(next1.ents, strayF), strayD)
           log0 == [i \in 1..Len(strayF) |-> Op("rm", strayF[i])]
                      \o [i \in 1..Len(strayD) |-> Op("rmdir", strayD[i])]
           st1 == CreateDirs([ents |-> pruned, log |-> log0, err |-> "none"],
                             ideal_manifest_next.Dirs)
       IN Begun([next1 EXCEPT !.ents = st1.ents],
                IF st1.err = "none" THEN pair ELSE st1.err, st1.log,
                ideal_manifest_next.Files, actual_manifest_prev, actual_manifest_next)

\* Updater.downloadContentHttp up to the retrieval loop, on the SyncDir
\* sd = [cur, next] against the server state srv, the GETs of the URLs in 'fails'
\* failing: the GET of manifest.content, the consistency of the pair, the three
\* manifests, the two prunings and the directories.
beginDownloadContent(sd, srv, fails) ==
    IF ManifestFilename_Content \in fails \/ srv.content.st = "missing"
    THEN Begun(sd.next, "http", <<>>, <<>>, NoManifest, NoManifest)
    ELSE
    LET next1 == [sd.next EXCEPT !.mcontent = srv.content]
        pair == isManifestPairConsistent(next1)
        actual_manifest_prev == BuildManifest(sd.cur)
        ideal_manifest_next == ReadManifest(next1)
        actual_manifest_next == BuildManifest(next1)
    IN IF pair # "none"
       THEN Begun(next1, pair, <<>>, <<>>, NoManifest, NoManifest)
       ELSE IF actual_manifest_prev.err # "none"
       THEN Begun(next1, actual_manifest_prev.err, <<>>, <<>>, NoManifest, NoManifest)
       ELSE IF ideal_manifest_next.err # "none"
       THEN Begun(next1, ideal_manifest_next.err, <<>>, <<>>, NoManifest, NoManifest)
       ELSE IF actual_manifest_next.err # "none"
       THEN Begun(next1, actual_manifest_next.err, <<>>, <<>>, NoManifest, NoManifest)
       ELSE
       LET strayF == StrayFiles(actual_manifest_next, ideal_manifest_next)
           strayD == StrayDirs(actual_manifest_next, ideal_manifest_next)
           pruned == RemoveDirs(RemoveFiles(next1.ents, strayF), strayD)
           log0 == [i \in 1..Len(strayF) |-> Op("rm", strayF[i])]
                      \o [i \in 1..Len(strayD) |-> Op("rmdir", strayD[i])]
           st1 == CreateDirs([ents |-> pruned, log |-> log0, err |-> "none"],
                             ideal_manifest_next.Dirs)
       IN Begun([next1 EXCEPT !.ents = st1.ents], st1.err, st1.log,
                ideal_manifest_next.Files, actual_manifest_prev, actual_manifest_next)

\* As downloadContentHttp, the files of the ideal manifest retrieved before the
\* staging tree is pruned and the directories are created.
downloadContentHttp_retrieveFirst(sd, srv, fails, ts) ==
    IF ManifestFilename_Content \in fails \/ srv.content.st = "missing"
    THEN Outcome(sd.next, "http", <<>>)
    ELSE
    LET next1 == [sd.next EXCEPT !.mcontent = srv.content]
        pair == isManifestPairConsistent(next1)
        actual_manifest_prev == BuildManifest(sd.cur)
        ideal_manifest_next == ReadManifest(next1)
        actual_manifest_next == BuildManifest(next1)
    IN IF pair # "none" THEN Outcome(next1, pair, <<>>)
       ELSE IF actual_manifest_prev.err # "none" THEN Outcome(next1, actual_manifest_prev.err, <<>>)
       ELSE IF ideal_manifest_next.err # "none" THEN Outcome(next1, ideal_manifest_next.err, <<>>)
       ELSE IF actual_manifest_next.err # "none" THEN Outcome(next1, actual_manifest_next.err, <<>>)
       ELSE
       LET st0 == RetrieveFiles([ents |-> next1.ents, log |-> <<>>, err |-> "none"],
                                ideal_manifest_next.Files, sd.cur,
                                actual_manifest_prev, actual_manifest_next, srv, fails, ts)
           strayF == StrayFiles(actual_manifest_next, ideal_manifest_next)
           strayD == StrayDirs(actual_manifest_next, ideal_manifest_next)
           pruned == RemoveDirs(RemoveFiles(st0.ents, strayF), strayD)
           log1 == st0.log \o [i \in 1..Len(strayF) |-> Op("rm", strayF[i])]
                           \o [i \in 1..Len(strayD) |-> Op("rmdir", strayD[i])]
           st2 == CreateDirs([ents |-> pruned, log |-> log1, err |-> "none"],
                             ideal_manifest_next.Dirs)
       IN IF st0.err # "none" THEN Outcome([next1 EXCEPT !.ents = st0.ents], st0.err, st0.log)
          ELSE Outcome([next1 EXCEPT !.ents = st2.ents], st2.err, st2.log)

\* Updater.downloadContentHttp, run to its return against a server that does not
\* change meanwhile; ts[k] is what the clock shows when the k-th file of the
\* ideal manifest is handled.
downloadContentHttp(sd, srv, fails, ts) ==
    LET b == beginDownloadContent(sd, srv, fails)
    IN IF b.err # "none" THEN Outcome(b.next, b.err, b.log)
       ELSE LET st == RetrieveFiles([ents |-> b.next.ents, log |-> b.log, err |-> "none"],
                                    b.files, sd.cur, b.prev, b.anext, srv, fails, ts)
            IN Outcome([b.next EXCEPT !.ents = st.ents], st.err, st.log)

\* The clock readings of n file operations made one after the other from the
\* time t0 on, the clock going no further than t1.
RECURSIVE StampSeqs(_, _, _)
StampSeqs(t0, t1, n) ==
    IF n = 0 THEN {<<>>}
    ELSE UNION {{<<t>> \o rest : rest \in StampSeqs(t, t1, n - 1)} : t \in t0..t1}

\* The counters of the "Download complete" log line.
Count(log, o) == Len(SelectSeq(log, LAMBDA e : e.op = o))

-----------------------------------------------------------------------------
(* Common to the specifications *)

\* Config.allSyncDirs: BinDir, then ConfDir.
allSyncDirs == <<"BinDir", "ConfDir">>
SyncDirs == {"BinDir", "ConfDir"}

Services == {"s1", "s2"}

EmptySyncDir == [cur |-> EmptyDir, next |-> EmptyDir]
AbsentSyncDir == [cur |-> AbsentDir, next |-> AbsentDir]

\* The locals of Apply before it has started.
\*   i        the loop index of Download, and of the mirror loop of Apply
\*   dl       the locals of the downloadContentHttp in progress (Begun, less the
\*            staging tree and the error): the files of the ideal manifest still
\*            to retrieve, the manifests of current and next, the operations made
\*   k        the index of the loop over the services in the hook in progress
\*   starting the local 'services' of afterSyncImqs
\*   checked  what isReadyToApply returned for each SyncDir in this Apply
\*   wasReady whether each SyncDir was ready when this Apply started
\*   ready    the list 'ready' of Apply
\*   services, waited, running   the locals of beforeSyncImqs (waited: the
\*            seconds slept since 'start' was taken; running: the services the
\*            iteration in progress of the polling loop has found running)
\*   before   the outcome of the before-sync hook ("none": not called)
\*   mirrored the SyncDirs mirrorNextToCurrent was called for, in order
\*   failed   the last mirror returned an error
\*   after    the after-sync hook was called
\*   started  the services a start was issued to in this Apply
\*   getFailed     the SyncDirs whose reconciliation a failed file GET ended in this tick
\*   inconsistent  those whose reconciliation ended with ErrManifestInconsistent
\*   fresh    this is the first tick after start and nothing has failed in it
\*   retry    "failed": the mirror of the SyncDir failed in this tick; "due": it
\*            failed in the previous tick and the server's release is unchanged
NoDl == [files |-> <<>>, prev |-> NoManifest, anext |-> NoManifest, log |-> <<>>]

NoApply == [i |-> 1,
            dl |-> NoDl,
            k |-> 1,
            starting |-> <<>>,
            checked |-> [d \in SyncDirs |-> "none"],
            wasReady |-> [d \in SyncDirs |-> FALSE],
            ready |-> <<>>,
            services |-> <<>>,
            waited |-> 0,
            running |-> <<>>,
            before |-> "none",
            mirrored |-> <<>>,
            failed |-> FALSE,
            after |-> FALSE,
            started |-> {},
            retry |-> [d \in SyncDirs |-> "no"],
            getFailed |-> {},
            inconsistent |-> {},
            fresh |-> FALSE]

\*   new, ready  what the two SyncDir predicates returned (SpecGate)
\*   runs        the runs of the reconciler (SpecReconcile)
\*   stoppedAt   where the Run loop was when the process ended (SpecService)
\*   fed         the bytes fed to the envelope digest of two trees (SpecDigest)
\*   scanned     the manifests built from a tree, with and without digests (SpecScan)
\*   robocopy    how the mirror process ended, and the error made of it (SpecMirror)
NoRes == [new |-> FALSE, ready |-> [ready |-> FALSE, err |-> "none"], runs |-> <<>>,
          stoppedAt |-> "none", fed |-> <<>>, scanned |-> <<>>,
          robocopy |-> [run |-> <<>>, err |-> "none"]]

Bodies == {"x", "y"}
Times == 0..MaxTime

\* The trees over the paths a, d, d/a: a is a file or absent; d is absent, a file,
\* or a directory that may hold the file d/a. (The path e is absent.)
FileOrNone(bs, ts) == {NoEntry} \cup {FileEntry(b, t) : b \in bs, t \in ts}

Trees(bs, ts) ==
    {[EmptyEnts EXCEPT !["a"] = ea, !["d"] = ed, !["d/a"] = eda] :
        ea \in FileOrNone(bs, ts),
        ed \in FileOrNone(bs, ts) \cup {DirEntry},
        eda \in FileOrNone(bs, ts)}

WellFormedTrees(bs, ts) == {t \in Trees(bs, ts) : WellFormedEnts(t)}

-----------------------------------------------------------------------------
(* Specification SpecGate: the two SyncDir predicates as functions of the disk *)

\* The manifests the sidecars of the gate's inputs are written from.
GateTrees ==
    {EmptyEnts,
     [EmptyEnts EXCEPT !["a"] = FileEntry("x", 0)],
     [EmptyEnts EXCEPT !["a"] = FileEntry("y", 0)],
     [EmptyEnts EXCEPT !["a"] = FileEntry("x", 0), !["d"] = DirEntry]}

GateManifests == {BuildManifest([EmptyDir EXCEPT !.ents = t]) : t \in GateTrees}

\* manifest.hash: missing, unreadable (an error other than not-found), the
\* hex of a digest, or the hex of a digest followed by a newline.
GateHashFiles ==
    {NoHashFile, [st |-> "unreadable", hex |-> "", tail |-> ""]}
        \cup {WriteHash(m) : m \in GateManifests}
        \cup {[WriteHash(m) EXCEPT !.tail = "\n"] : m \in GateManifests}

\* manifest.content: missing, not JSON, or the JSON of a manifest.
GateContentFiles ==
    {NoContentFile, [st |-> "malformed", Files |-> <<>>, Dirs |-> <<>>]}
        \cup {WriteContent(m) : m \in GateManifests}

InitGate ==
    /\ \E ch \in GateHashFiles, nh \in GateHashFiles, nc \in GateContentFiles,
          t \in GateTrees, io \in BOOLEAN :
          fs = [d \in SyncDirs |->
                  IF d = "BinDir"
                  THEN [cur  |-> [EmptyDir EXCEPT !.mhash = ch],
                        next |-> [EmptyDir EXCEPT !.ents = t, !.mhash = nh, !.mcontent = nc,
                                                  !.ioerr = io]]
                  ELSE EmptySyncDir]
    /\ pub = [d \in SyncDirs |-> NoRelease]
    /\ svc = [s \in Services |-> "stopped"]
    /\ now = 0
    /\ pc = "gate"
    /\ apply = NoApply
    /\ res = NoRes

\* Evaluate both predicates on the SyncDir.
GateStep ==
    /\ pc = "gate"
    /\ pc' = "gateDone"
    /\ res' = [res EXCEPT !.new = manifestHashIsReadableAndNew(fs["BinDir"]),
                          !.ready = isReadyToApply(fs["BinDir"])]
    /\ UNCHANGED <<fs, pub, svc, now, apply>>

NextGate == GateStep

SpecGate == InitGate /\ [][NextGate]_vars

-----------------------------------------------------------------------------
(* Specification SpecDigest: the envelope digest as a function of the tree *)

\* The paths of the trees whose digests are compared: three files in the root,
\* with names made of hex digits, and a directory.
DigestPaths == {"ab", "ababa", "ba", "d"}

\* The trees over these paths: each file absent or present with a body and a
\* modification time, the directory absent or present.
DigestTrees(ts) ==
    {[p \in DigestPaths |->
         IF p = "ab" THEN e1 ELSE IF p = "ababa" THEN e2 ELSE IF p = "ba" THEN e3 ELSE ed] :
        e1 \in FileOrNone(Bodies, ts), e2 \in FileOrNone(Bodies, ts),
        e3 \in FileOrNone(Bodies, ts), ed \in {NoEntry, DirEntry}}

\* Two trees on disk, the first in current and the second in next.
InitDigest ==
    /\ \E t1 \in DigestTrees({0}), t2 \in DigestTrees(Times) :
          fs = [d \in SyncDirs |->
                  IF d = "BinDir"
                  THEN [cur  |-> [EmptyDir EXCEPT !.ents = t1],
                        next |-> [EmptyDir EXCEPT !.ents = t2]]
                  ELSE EmptySyncDir]
    /\ pub = [d \in SyncDirs |-> NoRelease]
    /\ svc = [s \in Services |-> "stopped"]
    /\ now = 0
    /\ pc = "digest"
    /\ apply = NoApply
    /\ res = NoRes

\* BuildManifest and Manifest.hash on both trees.
DigestStep ==
    /\ pc = "digest"
    /\ pc' = "digestDone"
    /\ res' = [res EXCEPT !.fed = <<hash(BuildManifest(fs["BinDir"].cur)),
                                    hash(BuildManifest(fs["BinDir"].next))>>]
    /\ UNCHANGED <<fs, pub, svc, now, apply>>

NextDigest == DigestStep

SpecDigest == InitDigest /\ [][NextDigest]_vars

-----------------------------------------------------------------------------
(* Specification SpecDirDigest: the envelope digest of trees of directories *)

\* Three names in the root, each absent, a directory or a file.
DirDigestPaths == {"ab", "aba", "ba"}

DirDigestTrees == [DirDigestPaths -> {NoEntry, DirEntry, FileEntry("y", 0)}]

\* Two trees on disk, the first in current and the second in next.
InitDirDigest ==
    /\ \E t1 \in DirDigestTrees, t2 \in DirDigestTrees :
          fs = [d \in SyncDirs |->
                  IF d = "BinDir"
                  THEN [cur  |-> [EmptyDir EXCEPT !.ents = t1],
                        next |-> [EmptyDir EXCEPT !.ents = t2]]
                  ELSE EmptySyncDir]
    /\ pub = [d \in SyncDirs |-> NoRelease]
    /\ svc = [s \in Services |-> "stopped"]
    /\ now = 0
    /\ pc = "digest"
    /\ apply = NoApply
    /\ res = NoRes

SpecDirDigest == InitDirDigest /\ [][NextDigest]_vars

-----------------------------------------------------------------------------
(* Specification SpecScan: the manifest of a tree that holds sidecar files *)

\* Files named manifest.content and manifest.hash in the root and in the
\* directory d, next to a file in each.
ScanPaths == {"a", "d", "d/a", "d/manifest.content", "d/manifest.hash",
              "manifest.content", "manifest.hash"}

\* path.Base: the last element of a path.
Base(p) ==
    IF p = "d/a" THEN "a"
    ELSE IF p = "d/manifest.content" THEN "manifest.content"
    ELSE IF p = "d/manifest.hash" THEN "manifest.hash"
    ELSE p

\* The well-formed trees over these paths: d is absent or a directory.
ScanTrees ==
    {t \in [ScanPaths -> FileOrNone(Bodies, {0}) \cup {DirEntry}] :
        /\ t["d"].kind # "file"
        /\ \A p \in ScanPaths \ {"d"} : t[p].kind # "dir"
        /\ \A p \in ScanPaths : t[p].kind # "none" => Visible(t, p)}

InitScan ==
    /\ \E t \in ScanTrees :
          fs = [d \in SyncDirs |->
                  IF d = "BinDir"
                  THEN [cur |-> [EmptyDir EXCEPT !.ents = t], next |-> EmptyDir]
                  ELSE EmptySyncDir]
    /\ pub = [d \in SyncDirs |-> NoRelease]
    /\ svc = [s \in Services |-> "stopped"]
    /\ now = 0
    /\ pc = "scan"
    /\ apply = NoApply
    /\ res = NoRes

\* BuildManifest and BuildManifestWithoutHashes on the tree.
ScanStep ==
    /\ pc = "scan"
    /\ pc' = "scanDone"
    /\ res' = [res EXCEPT !.scanned = <<BuildManifest(fs["BinDir"].cur).Files,
                                        scanPathRecursive(fs["BinDir"].cur.ents).Files>>]
    /\ UNCHANGED <<fs, pub, svc, now, apply>>

NextScan == ScanStep

SpecScan == InitScan /\ [][NextScan]_vars

-----------------------------------------------------------------------------
(* Specification SpecReconcile: the reconciler from any staging tree *)

\* The trees 'current' starts from: a and d as files.
RecCurTrees ==
    {[EmptyEnts EXCEPT !["a"] = ea, !["d"] = ed] :
        ea \in FileOrNone(Bodies, Times), ed \in {NoEntry, FileEntry("x", 0)}}

\* The trees the publisher builds releases from (timestamps are not published);
\* "z" is a content that no local tree holds.
RecIdealTrees == WellFormedTrees(Bodies \cup {"z"}, {0})

\* The GETs that fail during one run.
RecFailSets == {{}, {"a"}}

\* The trees on disk are stamped 0..MaxTime; a run starts when the clock shows
\* MaxTime, and the clock goes on to LastTime while the runs write their files.
LastTime == MaxTime + 1

\* next/manifest.hash is the one downloadHash has just fetched.
InitReconcile ==
    /\ \E c \in RecCurTrees, n \in WellFormedTrees(Bodies, Times), i \in RecIdealTrees :
          /\ pub = [d \in SyncDirs |-> IF d = "BinDir" THEN Release(i) ELSE NoRelease]
          /\ fs = [d \in SyncDirs |->
                     IF d = "BinDir"
                     THEN [cur  |-> [EmptyDir EXCEPT !.ents = c],
                           next |-> [EmptyDir EXCEPT !.ents = n, !.mhash = Release(i).hash]]
                     ELSE EmptySyncDir]
    /\ svc = [s \in Services |-> "stopped"]
    /\ now = MaxTime
    /\ pc = "reconcile"
    /\ apply = NoApply
    /\ res = NoRes

\* One run of the reconciler, the clock going on or not between two of its file
\* operations; the SyncDir it started from, its error and its file operations are
\* recorded.
ReconcileRun ==
    /\ pc = "reconcile"
    /\ Len(res.runs) < 2
    /\ \E fails \in RecFailSets,
          ts \in StampSeqs(now, LastTime, Len(pub["BinDir"].content.Files)) :
          LET r == downloadContentHttp(fs["BinDir"], pub["BinDir"], fails, ts)
          IN /\ fs' = [fs EXCEPT !["BinDir"].next = r.next]
             /\ res' = [res EXCEPT !.runs = Append(@, [from |-> fs["BinDir"], err |-> r.err, log |-> r.log])]
             /\ now' = IF ts = <<>> THEN now ELSE ts[Len(ts)]
    /\ UNCHANGED <<pub, svc, pc, apply>>

NextReconcile == ReconcileRun

SpecReconcile == InitReconcile /\ [][NextReconcile]_vars

-----------------------------------------------------------------------------
(* Specification SpecPrune: the reconciler on trees with two directories *)

\* The tree t, with the directory e in it or not.
WithDirE(t) == {t, [t EXCEPT !["e"] = DirEntry]}

\* The staging trees and the trees of the releases: those over a, d and d/a, each
\* with and without the directory e.
PruneNextTrees == UNION {WithDirE(t) : t \in WellFormedTrees(Bodies, {0})}
PruneIdealTrees == UNION {WithDirE(t) : t \in RecIdealTrees}

\* current holds the file a or nothing.
PruneCurTrees == {[EmptyEnts EXCEPT !["a"] = ea] : ea \in FileOrNone(Bodies, {0})}

InitPrune ==
    /\ \E c \in PruneCurTrees, n \in PruneNextTrees, i \in PruneIdealTrees :
          /\ pub = [d \in SyncDirs |-> IF d = "BinDir" THEN Release(i) ELSE NoRelease]
          /\ fs = [d \in SyncDirs |->
                     IF d = "BinDir"
                     THEN [cur  |-> [EmptyDir EXCEPT !.ents = c],
                           next |-> [EmptyDir EXCEPT !.ents = n, !.mhash = Release(i).hash]]
                     ELSE EmptySyncDir]
    /\ svc = [s \in Services |-> "stopped"]
    /\ now = MaxTime
    /\ pc = "reconcile"
    /\ apply = NoApply
    /\ res = NoRes

SpecPrune == InitPrune /\ [][NextReconcile]_vars

-----------------------------------------------------------------------------
(* Specification Spec: the Run loop of the updater *)

\* The service stop timeout of the configuration, in seconds.
ServiceStopWaitSeconds == 1

\* The trees the publisher goes through, oldest first, for each SyncDir: two
\* releases of BinDir, the first with two files that hold the same bytes, the
\* second without one of them and with another service name, and one release of
\* ConfDir.
Catalog ==
    [d \in SyncDirs |->
        IF d = "BinDir"
        THEN <<[EmptyEnts EXCEPT !["a"] = FileEntry("s1", 0), !["servicenames"] = FileEntry("s1", 0)],
               [EmptyEnts EXCEPT !["servicenames"] = FileEntry("s2", 0)]>>
        ELSE <<[EmptyEnts EXCEPT !["a"] = FileEntry("x", 0)]>>]

\* What the server serves once buildmanifest has run on each of them.
Releases == [d \in SyncDirs |-> [i \in 1..Len(Catalog[d]) |-> Release(Catalog[d][i])]]

\* As mirrorNextToCurrent, manifest.hash left out of the copy.
mirrorNextToCurrent_withoutHash(sd) == [sd EXCEPT !.cur = [sd.next EXCEPT !.mhash = sd.cur.mhash]]

\* Updater.mirrorNextToCurrent / shellMirrorDirectory, robocopy /MIR succeeding:
\* current becomes a copy of next, timestamps included.
mirrorNextToCurrent(sd) == [sd EXCEPT !.cur = sd.next]

\* The order in which robocopy goes through a directory: the files of the root,
\* then the subdirectories.
MirrorOrder == <<"a", ManifestFilename_Content, ManifestFilename_Hash, "servicenames",
                 "d", "d/a", "e">>

\* current after robocopy has brought the first k items of MirrorOrder in line
\* with next (copied, replaced or purged) and has not touched the others.
MirroredUpTo(sd, k) ==
    LET done == {MirrorOrder[i] : i \in 1..k}
    IN [ents |-> [p \in Paths |-> IF p \in done THEN sd.next.ents[p] ELSE sd.cur.ents[p]],
        mhash |-> IF ManifestFilename_Hash \in done THEN sd.next.mhash ELSE sd.cur.mhash,
        mcontent |-> IF ManifestFilename_Content \in done THEN sd.next.mcontent ELSE sd.cur.mcontent,
        ioerr |-> sd.cur.ioerr,
        absent |-> sd.cur.absent /\ k = 0,
        nopath |-> sd.cur.nopath]

\* What a robocopy /MIR that fails can leave in current.
PartialMirrors(sd) ==
    {m \in {MirroredUpTo(sd, k) : k \in 0..Len(MirrorOrder)} :
        WellFormedEnts(m.ents) /\ m # sd.next}

\* Updater.ensureDirExists on the root of a local tree: a root that exists is
\* left as it is; one that does not is created by os.MkdirAll, empty, or the
\* error of os.MkdirAll is returned. err is "none" for nil.
ensureDirExists(dir) ==
    IF ~dir.absent THEN [err |-> "none", dir |-> dir]
    ELSE IF dir.nopath THEN [err |-> "mkdir", dir |-> dir]
    ELSE [err |-> "none", dir |-> [dir EXCEPT !.absent = FALSE]]

\* The first lines of Updater.fetch: ensureDirExists on LocalPath and then on
\* LocalPathNext, fetch returning on the first error. The result is the SyncDir
\* afterwards and that error.
ensureLocalDirs(sd) ==
    LET c == ensureDirExists(sd.cur)
        n == ensureDirExists(sd.next)
    IN IF c.err # "none" THEN [err |-> c.err, sd |-> sd]
       ELSE IF n.err # "none" THEN [err |-> n.err, sd |-> [sd EXCEPT !.cur = c.dir]]
       ELSE [err |-> "none", sd |-> [cur |-> c.dir, next |-> n.dir]]

\* The URLs whose GET fails for want of an answer: none if the request for
\* 'name' is answered.
Failing(ok, name) == IF ok THEN {} ELSE {name}

\* As downloadHash, the file written to current as well.
downloadHash_intoCurrent(sd, srv, fails) ==
    IF ManifestFilename_Hash \in fails \/ srv.hash.st = "missing" THEN sd
    ELSE IF sd.next.mhash.st = "unreadable" THEN sd
    ELSE [sd EXCEPT !.next.mhash = srv.hash, !.cur.mhash = srv.hash]

\* Updater.downloadHash: the GET of manifest.hash and, if it returns 200, the
\* write of next/manifest.hash, which fails if the file cannot be opened; an
\* error of either is logged and nothing else.
downloadHash(sd, srv, fails) ==
    IF ManifestFilename_Hash \in fails \/ srv.hash.st = "missing" THEN sd
    ELSE IF sd.next.mhash.st = "unreadable" THEN sd
    ELSE [sd EXCEPT !.next.mhash = srv.hash]

\* Updater.fetch on one SyncDir, run to its return against a server that does
\* not change meanwhile. The result is current and the staging tree afterwards
\* and what was done:
\*   probe  "ok": the GET of manifest.hash was answered with 200 (the file is
\*          written unless it cannot be opened); "failed": the GET failed;
\*          "none": a local directory could not be created and no GET was made
\*   run    downloadContentHttp was called (manifest.content was requested)
\*   err    the error downloadContentHttp returned
\*   log    its file operations
fetch(sd, srv, fails, ts) ==
    LET e == ensureLocalDirs(sd)
    IN IF e.err # "none"
       THEN [cur |-> e.sd.cur, next |-> e.sd.next, probe |-> "none", run |-> FALSE,
             err |-> "none", log |-> <<>>]
       ELSE LET sd1 == downloadHash(e.sd, srv, fails)
                probe == IF ManifestFilename_Hash \in fails \/ srv.hash.st = "missing"
                         THEN "failed" ELSE "ok"
            IN IF manifestHashIsReadableAndNew(sd1)
               THEN LET r == downloadContentHttp(sd1, srv, fails, ts)
                    IN [cur |-> sd1.cur, next |-> r.next, probe |-> probe, run |-> TRUE,
                        err |-> r.err, log |-> r.log]
               ELSE [cur |-> sd1.cur, next |-> sd1.next, probe |-> probe, run |-> FALSE,
                     err |-> "none", log |-> <<>>]

\* The reconciliation returned the error of a file GET.
FileGetFailed(r) ==
    r.err = "http" /\ r.log # <<>> /\ r.log[Len(r.log)].op = "get"

\* readLines: the trimmed lines of a file; no lines if it cannot be read.
readLines(e) ==
    IF e.kind # "file" THEN <<>>
    ELSE IF e.body = "s1\ns2" THEN <<"s1", "s2">>
    ELSE <<e.body>>

\* As imqsServiceNames, the names of next/servicenames left out.
imqsServiceNames_currentOnly(sd) == readLines(sd.cur.ents["servicenames"])

\* imqsServiceNames: the names in BinDir's current/servicenames, then those of
\* next/servicenames that are not among them.
imqsServiceNames(sd) ==
    LET oldNames == readLines(sd.cur.ents["servicenames"])
        newNames == readLines(sd.next.ents["servicenames"])
    IN oldNames \o SelectSeq(newNames, LAMBDA n : \A i \in 1..Len(oldNames) : oldNames[i] # n)

Range(seq) == {seq[i] : i \in 1..Len(seq)}

\* isServiceRunning: anything but a reported STOPPED state counts as running.
isServiceRunning(s) == svc[s] # "stopped"

\* stopService: sc stop. A running service begins to stop.
stopService(s) == [svc EXCEPT ![s] = IF @ = "running" THEN "stopping" ELSE @]

\* startService: sc start.
startService(s) == [svc EXCEPT ![s] = "running"]

\* The list 'ready' of Apply: the SyncDirs before index i that are ready, or the
\* error that made Apply return.
RECURSIVE CollectReady(_, _)
CollectReady(i, acc) ==
    IF i > Len(allSyncDirs) THEN acc
    ELSE LET d == allSyncDirs[i]
             r == isReadyToApply(fs[d])
         IN IF r.err # "none"
            THEN [acc EXCEPT !.err = r.err, !.checked[d] = "err"]
            ELSE CollectReady(i + 1,
                    [acc EXCEPT !.checked[d] = IF r.ready THEN "true" ELSE "false",
                                !.ready = IF r.ready THEN Append(@, d) ELSE @])

\* The updater starts on a clean system, where no local directory exists yet,
\* the publisher serving the first release of each SyncDir. BinDir has the paths
\* NewConfig gives it; ConfDir has those of the configuration file, both or
\* LocalPath only, or none (NewConfig sets none).
Init ==
    /\ \E conf \in {AbsentSyncDir, [cur |-> NoDir, next |-> NoDir],
                     [cur |-> AbsentDir, next |-> NoDir]} :
          fs = [d \in SyncDirs |-> IF d = "ConfDir" THEN conf ELSE AbsentSyncDir]
    /\ pub = [d \in SyncDirs |-> Releases[d][1]]
    /\ svc = [s \in Services |-> "running"]
    /\ now = 0
    /\ pc = "ensure"
    /\ apply = [NoApply EXCEPT !.fresh = TRUE]
    /\ res = NoRes

\* As Download, returning after the fetch of one SyncDir.
Download_oneDirPerCall(i, err) == [pc |-> "check", i |-> 1]

\* As Download, returning when the fetch of a SyncDir has failed: the SyncDirs
\* after it are not fetched in this tick.
Download_stopOnError(i, err) ==
    IF i < Len(allSyncDirs) /\ err = "none" THEN [pc |-> "ensure", i |-> i + 1]
    ELSE [pc |-> "check", i |-> 1]

\* Updater.Download, when the fetch of the i-th SyncDir has returned: where the
\* Run loop goes on and with which index. fetch returns nothing: whatever went
\* wrong in it (err), the loop goes on to the next SyncDir, and Download returns
\* after the last.
Download(i, err) ==
    IF i < Len(allSyncDirs) THEN [pc |-> "ensure", i |-> i + 1]
    ELSE [pc |-> "check", i |-> 1]

\* The locals of the Run loop when the fetch of the SyncDir d has returned, err
\* being what went wrong in it and log the operations of its reconciliation.
AfterFetch(d, err, log) ==
    [apply EXCEPT
        !.i = Download(apply.i, err).i,
        !.dl = NoDl,
        !.fresh = @ /\ err = "none",
        !.getFailed = IF FileGetFailed([err |-> err, log |-> log]) THEN @ \cup {d} ELSE @,
        !.inconsistent = IF err = "ErrManifestInconsistent" THEN @ \cup {d} ELSE @]

\* Updater.fetch up to the GET of manifest.hash: ensureDirExists on LocalPath and
\* on LocalPathNext. When one of them fails, fetch returns; else it calls
\* downloadHash, which sends the GET.
EnsureDirExists ==
    /\ pc = "ensure"
    /\ LET d == allSyncDirs[apply.i]
           e == ensureLocalDirs(fs[d])
       IN /\ fs' = [fs EXCEPT ![d] = e.sd]
          /\ IF e.err # "none"
             THEN /\ apply' = AfterFetch(d, e.err, <<>>)
                  /\ pc' = Download(apply.i, e.err).pc
             ELSE /\ apply' = apply
                  /\ pc' = "fetch"
    /\ UNCHANGED <<pub, svc, now, res>>

\* Updater.fetch from the answer to the GET of manifest.hash up to the call of
\* downloadContent: the rest of downloadHash and manifestHashIsReadableAndNew.
Fetch ==
    /\ pc = "fetch"
    /\ LET d == allSyncDirs[apply.i]
       IN \E ok \in BOOLEAN :
             LET sd1 == downloadHash(fs[d], pub[d], Failing(ok, ManifestFilename_Hash))
                 err == IF ~ok \/ pub[d].hash.st # "ok" THEN "http"
                        ELSE IF fs[d].next.mhash.st = "unreadable" THEN "write"
                        ELSE "none"
             IN /\ fs' = [fs EXCEPT ![d] = sd1]
                /\ IF manifestHashIsReadableAndNew(sd1)
                   THEN /\ apply' = [apply EXCEPT !.fresh = @ /\ err = "none"]
                        /\ pc' = "content"
                   ELSE /\ apply' = AfterFetch(d, err, <<>>)
                        /\ pc' = Download(apply.i, err).pc
    /\ UNCHANGED <<pub, svc, now, res>>

\* downloadContent: downloadContentHttp from the GET of manifest.content up to
\* the retrieval loop.
DownloadContent ==
    /\ pc = "content"
    /\ LET d == allSyncDirs[apply.i]
       IN \E ok \in BOOLEAN :
             LET b == beginDownloadContent(fs[d], pub[d], Failing(ok, ManifestFilename_Content))
             IN /\ fs' = [fs EXCEPT ![d].next = b.next]
                /\ IF b.err # "none" \/ b.files = <<>>
                   THEN /\ apply' = AfterFetch(d, b.err, b.log)
                        /\ pc' = Download(apply.i, b.err).pc
                   ELSE /\ apply' = [apply EXCEPT !.dl = [files |-> b.files, prev |-> b.prev,
                                                          anext |-> b.anext, log |-> b.log]]
                        /\ pc' = "file"
    /\ UNCHANGED <<pub, svc, now, res>>

\* One iteration of the retrieval loop of downloadContentHttp: the next file of
\* the ideal manifest is found ready, copied from current, or requested from the
\* server (one GET) and written. A file written is stamped with the time of the
\* clock.
Retrieve ==
    /\ pc = "file"
    /\ LET d == allSyncDirs[apply.i]
           file == apply.dl.files[1]
       IN \E ok \in BOOLEAN :
             LET st == RetrieveFile([ents |-> fs[d].next.ents, log |-> apply.dl.log, err |-> "none"],
                                    file, fs[d].cur, apply.dl.prev, apply.dl.anext, pub[d],
                                    Failing(ok, file.Name), now)
             IN /\ fs' = [fs EXCEPT ![d].next.ents = st.ents]
                /\ IF st.err # "none" \/ Len(apply.dl.files) = 1
                   THEN /\ apply' = AfterFetch(d, st.err, st.log)
                        /\ pc' = Download(apply.i, st.err).pc
                   ELSE /\ apply' = [apply EXCEPT !.dl.files = Tail(@), !.dl.log = st.log]
                        /\ pc' = pc
    /\ UNCHANGED <<pub, svc, now, res>>

\* Updater.Apply, up to the call of the before-sync hook.
ApplyCheck ==
    /\ pc = "check"
    /\ LET c == CollectReady(1, [ready |-> <<>>, err |-> "none", checked |-> apply.checked])
       IN /\ apply' = [apply EXCEPT !.checked = c.checked,
                                    !.ready = c.ready,
                                    !.wasReady = [d \in SyncDirs |-> isReadyToApply(fs[d]).ready]]
          /\ pc' = IF c.err # "none" \/ c.ready = <<>> THEN "sleep" ELSE "stop"
    /\ UNCHANGED <<fs, pub, svc, now, res>>

\* As BeforeSyncStop, a stop issued to the first service of the list only.
BeforeSyncStop_firstOnly ==
    /\ pc = "stop"
    /\ LET services == imqsServiceNames(fs["BinDir"])
       IN /\ svc' = IF services = <<>> THEN svc ELSE stopService(services[1])
          /\ apply' = [apply EXCEPT !.services = services, !.waited = 0, !.running = <<>>]
    /\ pc' = "poll"
    /\ UNCHANGED <<fs, pub, now, res>>

\* beforeSyncImqs, the loop of the stops: the list of the services is read when
\* the hook is called, and each step issues one stop (one run of sc). After the
\* last, 'start' is taken and the polling begins.
BeforeSyncStop ==
    /\ pc = "stop"
    /\ LET services == IF apply.k = 1 THEN imqsServiceNames(fs["BinDir"]) ELSE apply.services
           last == apply.k >= Len(services)
       IN /\ svc' = IF services = <<>> THEN svc ELSE stopService(services[apply.k])
          /\ apply' = [apply EXCEPT !.services = services, !.waited = 0, !.running = <<>>,
                                    !.k = IF last THEN 1 ELSE @ + 1]
          /\ pc' = IF last THEN "poll" ELSE pc
    /\ UNCHANGED <<fs, pub, now, res>>

\* What the polling loop has found when it has queried the k-th service of its
\* list: the local 'running' with that service appended if sc does not report
\* it STOPPED.
Queried(running, services, k) ==
    IF services = <<>> THEN <<>>
    ELSE IF isServiceRunning(services[k]) THEN Append(running, services[k])
    ELSE running

\* As BeforeSyncPoll, the services left as they are when the wait is abandoned.
BeforeSyncPoll_noRestart ==
    /\ pc = "poll"
    /\ LET running == Queried(apply.running, apply.services, apply.k)
       IN IF apply.k < Len(apply.services)
          THEN /\ apply' = [apply EXCEPT !.k = @ + 1, !.running = running]
               /\ pc' = pc
          ELSE IF running = <<>>
          THEN /\ apply' = [apply EXCEPT !.before = "ok", !.i = 1, !.k = 1, !.running = <<>>]
               /\ pc' = "mirror"
          ELSE IF apply.waited >= ServiceStopWaitSeconds
          THEN /\ apply' = [apply EXCEPT !.before = "ErrServiceNotStopping", !.k = 1,
                                         !.running = <<>>]
               /\ pc' = "sleep"
          ELSE /\ apply' = [apply EXCEPT !.k = 1, !.running = <<>>]
               /\ pc' = "wait"
    /\ UNCHANGED <<fs, pub, svc, now, res>>

\* As BeforeSyncPoll, the wait never abandoned: once ServiceStopWaitSeconds have
\* gone by the loop queries the services again and again.
BeforeSyncPoll_noTimeout ==
    /\ pc = "poll"
    /\ LET running == Queried(apply.running, apply.services, apply.k)
       IN IF apply.k < Len(apply.services)
          THEN /\ apply' = [apply EXCEPT !.k = @ + 1, !.running = running]
               /\ pc' = pc
          ELSE IF running = <<>>
          THEN /\ apply' = [apply EXCEPT !.before = "ok", !.i = 1, !.k = 1, !.running = <<>>]
               /\ pc' = "mirror"
          ELSE /\ apply' = [apply EXCEPT !.k = 1, !.running = <<>>]
               /\ pc' = IF apply.waited >= ServiceStopWaitSeconds THEN pc ELSE "wait"
    /\ UNCHANGED <<fs, pub, svc, now, res>>

\* beforeSyncImqs, the polling loop: each step is one query (one run of sc) of a
\* service of the list, which is added to 'running' unless it is reported
\* STOPPED. After the query of the last service the loop is left if none is
\* running; else the time gone by since 'start' is tested and the wait is
\* abandoned or the loop goes on to sleep. After n sleeps the time gone by is n
\* seconds and the time the runs of sc have taken, which is more than nothing
\* and is taken to be less than a second: it exceeds ServiceStopWaitSeconds from
\* the iteration on that follows that many sleeps.
BeforeSyncPoll ==
    /\ pc = "poll"
    /\ LET running == Queried(apply.running, apply.services, apply.k)
       IN IF apply.k < Len(apply.services)
          THEN /\ apply' = [apply EXCEPT !.k = @ + 1, !.running = running]
               /\ pc' = pc
          ELSE IF running = <<>>
          THEN /\ apply' = [apply EXCEPT !.before = "ok", !.i = 1, !.k = 1, !.running = <<>>]
               /\ pc' = "mirror"
          ELSE IF apply.waited >= ServiceStopWaitSeconds
          THEN /\ apply' = [apply EXCEPT !.k = 1, !.running = <<>>]
               /\ pc' = "restart"
          ELSE /\ apply' = [apply EXCEPT !.k = 1, !.running = <<>>]
               /\ pc' = "wait"
    /\ UNCHANGED <<fs, pub, svc, now, res>>

\* beforeSyncImqs, time.Sleep(1 s) at the end of an iteration of the polling
\* loop.
BeforeSyncWait ==
    /\ pc = "wait"
    /\ apply' = [apply EXCEPT !.waited = @ + 1]
    /\ pc' = "poll"
    /\ UNCHANGED <<fs, pub, svc, now, res>>

\* As BeforeSyncRestart followed by an Apply that goes on to the mirror loop when
\* the hook has returned ErrServiceNotStopping.
BeforeSyncRestart_errorIgnored ==
    /\ pc = "restart"
    /\ LET s == apply.services[apply.k]
           last == apply.k = Len(apply.services)
       IN /\ svc' = startService(s)
          /\ apply' = [apply EXCEPT !.started = @ \cup {s},
                                    !.k = IF last THEN 1 ELSE @ + 1,
                                    !.i = 1,
                                    !.before = IF last THEN "ErrServiceNotStopping" ELSE @]
          /\ pc' = IF last THEN "mirror" ELSE pc
    /\ UNCHANGED <<fs, pub, now, res>>

\* beforeSyncImqs, the wait abandoned: each step issues one start (one run of
\* sc) to a service of the list; after the last the hook returns
\* ErrServiceNotStopping and Apply returns.
BeforeSyncRestart ==
    /\ pc = "restart"
    /\ LET s == apply.services[apply.k]
           last == apply.k = Len(apply.services)
       IN /\ svc' = startService(s)
          /\ apply' = [apply EXCEPT !.started = @ \cup {s},
                                    !.k = IF last THEN 1 ELSE @ + 1,
                                    !.before = IF last THEN "ErrServiceNotStopping" ELSE @]
          /\ pc' = IF last THEN "sleep" ELSE pc
    /\ UNCHANGED <<fs, pub, now, res>>

\* A service that was told to stop reaches the STOPPED state.
ServiceStops ==
    /\ \E s \in Services :
          /\ svc[s] = "stopping"
          /\ svc' = [svc EXCEPT ![s] = "stopped"]
    /\ UNCHANGED <<fs, pub, now, pc, apply, res>>

\* One iteration of the mirror loop of Apply, the mirror succeeding.
MirrorOk ==
    /\ pc = "mirror"
    /\ LET d == apply.ready[apply.i]
       IN /\ fs' = [fs EXCEPT ![d] = mirrorNextToCurrent(fs[d])]
          /\ apply' = [apply EXCEPT !.mirrored = Append(@, d), !.i = @ + 1]
    /\ pc' = IF apply.i < Len(apply.ready) THEN pc ELSE "after"
    /\ UNCHANGED <<pub, svc, now, res>>

\* As MirrorFail, the error of the mirror ending the Run loop.
MirrorFail_endsRun ==
    /\ pc = "mirror"
    /\ LET d == apply.ready[apply.i]
       IN /\ \E m \in PartialMirrors(fs[d]) : fs' = [fs EXCEPT ![d].cur = m]
          /\ apply' = [apply EXCEPT !.mirrored = Append(@, d), !.failed = TRUE,
                                    !.retry[d] = "failed"]
    /\ pc' = "exited"
    /\ UNCHANGED <<pub, svc, now, res>>

\* As MirrorFail, the mirror loop going on to the next SyncDir of the list.
MirrorFail_goesOn ==
    /\ pc = "mirror"
    /\ LET d == apply.ready[apply.i]
       IN /\ \E m \in PartialMirrors(fs[d]) : fs' = [fs EXCEPT ![d].cur = m]
          /\ apply' = [apply EXCEPT !.mirrored = Append(@, d), !.failed = TRUE,
                                    !.retry[d] = "failed", !.i = @ + 1]
    /\ pc' = IF apply.i < Len(apply.ready) THEN pc ELSE "sleep"
    /\ UNCHANGED <<pub, svc, now, res>>

\* One iteration of the mirror loop of Apply, the mirror failing: Apply returns.
MirrorFail ==
    /\ pc = "mirror"
    /\ LET d == apply.ready[apply.i]
       IN /\ \E m \in PartialMirrors(fs[d]) : fs' = [fs EXCEPT ![d].cur = m]
          /\ apply' = [apply EXCEPT !.mirrored = Append(@, d), !.failed = TRUE,
                                    !.retry[d] = "failed"]
    /\ pc' = "sleep"
    /\ UNCHANGED <<pub, svc, now, res>>

\* afterSyncImqs: the list of the services is read when the hook is called, and
\* each step issues one start (one run of sc).
AfterSync ==
    /\ pc = "after"
    /\ LET services == IF apply.after THEN apply.starting ELSE imqsServiceNames(fs["BinDir"])
           last == apply.k >= Len(services)
       IN /\ svc' = IF services = <<>> THEN svc ELSE startService(services[apply.k])
          /\ apply' = [apply EXCEPT !.after = TRUE,
                                    !.starting = services,
                                    !.started = IF services = <<>> THEN @
                                                ELSE @ \cup {services[apply.k]},
                                    !.k = IF last THEN 1 ELSE @ + 1]
          /\ pc' = IF last THEN "sleep" ELSE pc
    /\ UNCHANGED <<fs, pub, now, res>>

\* time.Sleep between two ticks.
Sleep ==
    /\ pc = "sleep"
    /\ pc' = "ensure"
    /\ apply' = [NoApply EXCEPT !.retry = [d \in SyncDirs |->
                                   IF apply.retry[d] = "failed" THEN "due" ELSE "no"]]
    /\ UNCHANGED <<fs, pub, svc, now, res>>

\* Time passes: the clock that stamps the files goes on by one timestamp.
Tick ==
    /\ now < MaxTime
    /\ now' = now + 1
    /\ UNCHANGED <<fs, pub, svc, pc, apply, res>>

\* The index in the catalog of the release whose manifest.content and
\* manifest.hash the server serves.
ContentIndex(d) == CHOOSE i \in 1..Len(Catalog[d]) : pub[d].content = Releases[d][i].content
HashIndex(d) == CHOOSE i \in 1..Len(Catalog[d]) : pub[d].hash = Releases[d][i].hash

\* The publisher is a program of its own and acts wherever the Run loop is. It
\* brings the served tree to the next release of the catalog one path at a time,
\* under the manifests of the release before: a file is put in place, replaced
\* or removed.
PublishFile ==
    /\ \E d \in SyncDirs, p \in Paths :
          /\ ContentIndex(d) = HashIndex(d)
          /\ ContentIndex(d) < Len(Catalog[d])
          /\ pub[d].files[p] # Releases[d][ContentIndex(d) + 1].files[p]
          /\ pub' = [pub EXCEPT ![d].files[p] = Releases[d][ContentIndex(d) + 1].files[p]]
          /\ apply' = [apply EXCEPT !.retry[d] = "no"]
    /\ UNCHANGED <<fs, svc, now, pc, res>>

\* The publisher runs buildmanifest on the tree of the next release:
\* Manifest.Write writes manifest.content first.
PublishContent ==
    /\ \E d \in SyncDirs :
          /\ ContentIndex(d) = HashIndex(d)
          /\ ContentIndex(d) < Len(Catalog[d])
          /\ pub[d].files = Releases[d][ContentIndex(d) + 1].files
          /\ pub' = [pub EXCEPT ![d].content = Releases[d][ContentIndex(d) + 1].content]
          /\ apply' = [apply EXCEPT !.retry[d] = "no"]
    /\ UNCHANGED <<fs, svc, now, pc, res>>

\* Manifest.Write goes on to write manifest.hash.
PublishHash ==
    /\ \E d \in SyncDirs :
          /\ HashIndex(d) # ContentIndex(d)
          /\ pub' = [pub EXCEPT ![d].hash = Releases[d][ContentIndex(d)].hash]
          /\ apply' = [apply EXCEPT !.retry[d] = "no"]
    /\ UNCHANGED <<fs, svc, now, pc, res>>

Next ==
    \/ EnsureDirExists
    \/ Fetch
    \/ DownloadContent
    \/ Retrieve
    \/ ApplyCheck
    \/ BeforeSyncStop
    \/ BeforeSyncPoll
    \/ BeforeSyncWait
    \/ BeforeSyncRestart
    \/ ServiceStops
    \/ MirrorOk
    \/ MirrorFail
    \/ AfterSync
    \/ Sleep
    \/ Tick
    \/ PublishFile
    \/ PublishContent
    \/ PublishHash

Spec == Init /\ [][Next]_vars

-----------------------------------------------------------------------------
(* Specification SpecHook: the before-sync hook from any state of the services *)

\* What current/servicenames and next/servicenames of BinDir hold: no file, one
\* name, or two names.
HookNameFiles == {NoEntry, FileEntry("s1", 0), FileEntry("s2", 0), FileEntry("s1\ns2", 0)}

\* Apply has found BinDir ready and calls the hook; each service is running or
\* stopped.
InitHook ==
    /\ \E c \in HookNameFiles, n \in HookNameFiles :
          fs = [d \in SyncDirs |->
                  IF d = "BinDir"
                  THEN [cur  |-> [EmptyDir EXCEPT !.ents["servicenames"] = c],
                        next |-> [EmptyDir EXCEPT !.ents["servicenames"] = n]]
                  ELSE EmptySyncDir]
    /\ pub = [d \in SyncDirs |-> NoRelease]
    /\ svc \in [Services -> {"running", "stopped"}]
    /\ now = 0
    /\ pc = "stop"
    /\ apply = [NoApply EXCEPT !.ready = <<"BinDir">>]
    /\ res = NoRes

NextHook ==
    \/ BeforeSyncStop
    \/ BeforeSyncPoll
    \/ BeforeSyncWait
    \/ BeforeSyncRestart
    \/ ServiceStops

\* The goroutine of Run goes on through the hook: sc returns and time.Sleep
\* ends. A service is under no obligation to stop.
HookFairness ==
    /\ WF_vars(BeforeSyncStop)
    /\ WF_vars(BeforeSyncPoll)
    /\ WF_vars(BeforeSyncWait)
    /\ WF_vars(BeforeSyncRestart)

SpecHook == InitHook /\ [][NextHook]_vars /\ HookFairness

-----------------------------------------------------------------------------
(* Specification SpecMirror: the classification of the result of robocopy *)

\* The exit statuses 0..MaxExitStatus are gone through one by one.
MaxExitStatus == 48

\* The largest exit status that is printed in decimal whatever the Go release,
\* and a large exit status (those of Windows go up to 4294967295 and are printed
\* the same way; this is the largest integer the model checker holds).
MaxShortStatus == 65535
LargeStatus == 2147483647

DecDigit == <<"0", "1", "2", "3", "4", "5", "6", "7", "8", "9">>
HexDigit == DecDigit \o <<"a", "b", "c", "d", "e", "f">>

\* The digits of n in the given base, most significant first.
RECURSIVE Digits(_, _)
Digits(n, base) ==
    IF n < base THEN <<HexDigit[n + 1]>>
    ELSE Append(Digits(n \div base, base), HexDigit[(n % base) + 1])

\* How cmd.Run ended: the process could not be started, or it exited with a
\* status. hex: the Go release prints a status of 65536 or more in hexadecimal.
NotRun(why) == [kind |-> "notrun", text |-> why, status |-> 0, hex |-> FALSE]
Exited(n, h) == [kind |-> "exit", text |-> "", status |-> n, hex |-> h]

RobocopyRuns ==
    {NotRun("exec: \"robocopy\": executable file not found in %PATH%"),
     NotRun("fork/exec robocopy: access is denied")}
        \cup {Exited(n, FALSE) : n \in (0..MaxExitStatus) \cup {MaxShortStatus, MaxShortStatus + 1, LargeStatus}}
        \cup {Exited(n, TRUE) : n \in {MaxShortStatus + 1, LargeStatus}}

\* The error cmd.Run returns, as the text of err.Error(): a prefix and what
\* follows it, character by character. "nil" stands for no error.
RunError(run) ==
    IF run.kind = "notrun" THEN [prefix |-> run.text, rest |-> <<>>]
    ELSE IF run.status = 0 THEN [prefix |-> "nil", rest |-> <<>>]
    ELSE [prefix |-> "exit status ",
          rest |-> IF run.hex /\ run.status > MaxShortStatus
                   THEN <<"0", "x">> \o Digits(run.status, 16)
                   ELSE Digits(run.status, 10)]

\* strconv.ParseUint(s, 10, 64): the value, or an error if s is empty or holds
\* a character that is not a decimal digit.
ParseUint(chars) ==
    LET IsDec(c) == \E k \in 1..10 : DecDigit[k] = c
        Val(c) == (CHOOSE k \in 1..10 : DecDigit[k] = c) - 1
        RECURSIVE Value(_)
        Value(cs) == IF cs = <<>> THEN 0 ELSE Value(SubSeq(cs, 1, Len(cs) - 1)) * 10 + Val(cs[Len(cs)])
    IN IF chars = <<>> \/ \E i \in 1..Len(chars) : ~IsDec(chars[i])
       THEN [err |-> TRUE, value |-> 0]
       ELSE [err |-> FALSE, value |-> Value(chars)]

\* As interpretRobocopyError, every exit status other than 0 taken for a failure.
interpretRobocopyError_strict(err) ==
    IF err.prefix = "nil" THEN "none" ELSE "failed"

\* interpretRobocopyError: "none" for nil, else the kind of error returned.
interpretRobocopyError(err) ==
    IF err.prefix = "nil" THEN "none"
    ELSE IF err.prefix # "exit status " THEN "run"
    ELSE LET flags == ParseUint(err.rest)
         IN IF flags.err THEN "run"
            ELSE IF flags.value >= 8 THEN "Robocopy error"
            ELSE "none"

\* shellMirrorDirectory: run robocopy /MIR and classify how it ended.
shellMirrorDirectory(run) == interpretRobocopyError(RunError(run))

\* Apply is in its mirror loop with BinDir ready; robocopy ends in one of the ways
\* above.
InitMirror ==
    /\ fs = [d \in SyncDirs |-> EmptySyncDir]
    /\ pub = [d \in SyncDirs |-> NoRelease]
    /\ svc = [s \in Services |-> "stopped"]
    /\ now = 0
    /\ pc = "mirror"
    /\ apply = [NoApply EXCEPT !.ready = <<"BinDir">>, !.before = "ok"]
    /\ \E run \in RobocopyRuns : res = [NoRes EXCEPT !.robocopy.run = run]

\* One iteration of the mirror loop of Apply: on an error Apply returns, else it
\* goes on, here to the after-sync hook.
MirrorRun ==
    /\ pc = "mirror"
    /\ LET d == apply.ready[apply.i]
           err == shellMirrorDirectory(res.robocopy.run)
       IN /\ res' = [res EXCEPT !.robocopy.err = err]
          /\ apply' = [apply EXCEPT !.mirrored = Append(@, d),
                                    !.failed = err # "none",
                                    !.i = IF err = "none" THEN @ + 1 ELSE @]
          /\ pc' = IF err # "none" THEN "sleep"
                   ELSE IF apply.i < Len(apply.ready) THEN pc ELSE "after"
    /\ UNCHANGED <<fs, pub, svc, now>>

NextMirror == MirrorRun

SpecMirror == InitMirror /\ [][NextMirror]_vars

-----------------------------------------------------------------------------
(* Specification SpecLive: the Run loop under the fairness of its goroutine *)

\* Weak fairness of the steps of Download and of ApplyCheck, with ENABLED written
\* out: an EnsureDirExists step is possible exactly when pc = "ensure", a Fetch
\* step when pc = "fetch", a DownloadContent step
\* when pc = "content", a Retrieve step when pc = "file" and an ApplyCheck step
\* when pc = "check", and each changes pc or apply.
FetchFairness ==
    /\ []<>(pc # "ensure") \/ []<><<EnsureDirExists>>_vars
    /\ []<>(pc # "fetch") \/ []<><<Fetch>>_vars
    /\ []<>(pc # "content") \/ []<><<DownloadContent>>_vars
    /\ []<>(pc # "file") \/ []<><<Retrieve>>_vars
ApplyCheckFairness == []<>(pc # "check") \/ []<><<ApplyCheck>>_vars

\* The goroutine that executes Run is the only one of the process, and each of
\* its steps ends: a GET is answered or fails, sc and robocopy return, time.Sleep
\* ends. At every position of the loop it takes its next step. The publisher, the
\* services and the clock are under no obligation.
RunFairness ==
    /\ FetchFairness
    /\ ApplyCheckFairness
    /\ WF_vars(BeforeSyncStop)
    /\ WF_vars(BeforeSyncPoll)
    /\ WF_vars(BeforeSyncWait)
    /\ WF_vars(BeforeSyncRestart)
    /\ WF_vars(MirrorOk \/ MirrorFail)
    /\ WF_vars(AfterSync)
    /\ WF_vars(Sleep)

SpecLive == Init /\ [][Next]_vars /\ RunFairness

-----------------------------------------------------------------------------
(* Specification SpecService: the Run loop as the handler of a Windows service *)

\* myservice.Execute receives Stop or Shutdown and returns; svc.Run, runService,
\* RunAsService and main return after it, and the process ends with the goroutine
\* that executes Run wherever it is.
ServiceStop ==
    /\ pc # "exited"
    /\ pc' = "exited"
    /\ res' = [res EXCEPT !.stoppedAt = pc]
    /\ UNCHANGED <<fs, pub, svc, now, apply>>

NextService ==
    \/ EnsureDirExists
    \/ Fetch
    \/ DownloadContent
    \/ Retrieve
    \/ ApplyCheck
    \/ BeforeSyncStop
    \/ BeforeSyncPoll
    \/ BeforeSyncWait
    \/ BeforeSyncRestart
    \/ ServiceStops
    \/ MirrorOk
    \/ MirrorFail
    \/ AfterSync
    \/ Sleep
    \/ Tick
    \/ PublishFile
    \/ PublishContent
    \/ PublishHash
    \/ ServiceStop

SpecService == Init /\ [][NextService]_vars

-----------------------------------------------------------------------------
(* Claims C1 - C10 *)

\* The manifest built from the bytes on disk in a staging tree, the parsed
\* manifest.content and the digest decoded from manifest.hash all agree.
StagedTreeHashesToInventory(dir) ==
    LET truth == BuildManifest(dir)
        file == ReadManifest(dir)
    IN /\ truth.err = "none"
       /\ file.err = "none"
       /\ dir.mhash.st = "ok"
       /\ DecodeString(dir.mhash).err = "none"
       /\ hash(truth) = hash(file)
       /\ hash(file) = DecodeString(dir.mhash).bytes

\* C1: every SyncDir the mirror has been invoked for in this Apply is one for
\* which isReadyToApply returned true in this Apply, and the files on disk in its
\* staging tree hash to the inventory of next/manifest.content and
\* next/manifest.hash.
C1_MirrorOnlyWhenReady ==
    \A i \in 1..Len(apply.mirrored) :
        LET d == apply.mirrored[i]
        IN /\ apply.checked[d] = "true"
           /\ StagedTreeHashesToInventory(fs[d].next)

\* A mirror has been invoked in a tick in which the other SyncDir was not ready.
C1_Witness ==
    /\ apply.mirrored # <<>>
    /\ \E d \in SyncDirs : apply.checked[d] = "false" /\ ~StagedTreeHashesToInventory(fs[d].next)

\* C2 (as claimed): in the tick after a failed mirror of a SyncDir, the server's
\* release unchanged, isReadyToApply is true again for that SyncDir and, the
\* before-sync hook succeeding, the mirror is invoked for it again.
C2_RetriedOnNextTick ==
    \A d \in SyncDirs :
        apply.retry[d] = "due" =>
            /\ apply.checked[d] # "none" => apply.checked[d] = "true"
            /\ apply.before = "ok" /\ pc \in {"after", "sleep"} /\ apply.checked[d] # "none"
                   => \E i \in 1..Len(apply.mirrored) : apply.mirrored[i] = d

\* C3 (as claimed): an Apply whose before-sync hook succeeded has invoked the
\* after-sync hook by the time it returns.
C3_AfterSyncInvoked ==
    pc = "sleep" /\ apply.before = "ok" => apply.after

\* next/manifest.hash is readable, and current/manifest.hash either does not
\* exist or is readable and holds other bytes.
HashReadableAndNewAsSpecified(sd) ==
    /\ sd.next.mhash.st = "ok"
    /\ \/ sd.cur.mhash.st = "missing"
       \/ sd.cur.mhash.st = "ok" /\ sd.cur.mhash # sd.next.mhash

\* C4: isReadyToApply returns true exactly when the hash is readable and new, the
\* envelope digest of the manifest built from the files on disk equals the one of
\* the parsed manifest.content, and that digest equals the one decoded from
\* manifest.hash.
C4_ReadyIffThreeConditions ==
    pc = "gateDone" =>
        LET sd == fs["BinDir"]
        IN res.ready.ready <=>
              /\ HashReadableAndNewAsSpecified(sd)
              /\ ~sd.next.ioerr
              /\ sd.next.mcontent.st = "ok"
              /\ hash(BuildManifest(sd.next)) = hash(ReadManifest(sd.next))
              /\ DecodeString(sd.next.mhash).err = "none"
              /\ hash(ReadManifest(sd.next)) = DecodeString(sd.next.mhash).bytes

\* isReadyToApply has returned true; and there are inputs where only the tree on
\* disk stands in the way.
C4_Witness ==
    /\ pc = "gateDone"
    /\ res.ready.ready
    /\ fs["BinDir"].cur.mhash.st = "ok"

\* C5: manifestHashIsReadableAndNew is true iff next/manifest.hash is readable
\* and current/manifest.hash either does not exist or is readable with other bytes.
C5_HashIsReadableAndNew ==
    pc = "gateDone" => (res.new <=> HashReadableAndNewAsSpecified(fs["BinDir"]))

\* current/manifest.hash exists but cannot be read, next/manifest.hash can: false.
C5_Witness ==
    /\ pc = "gateDone"
    /\ fs["BinDir"].cur.mhash.st = "unreadable"
    /\ fs["BinDir"].next.mhash.st = "ok"
    /\ ~res.new

\* C6 (as claimed): when Apply returns without a hook or mirror failure, every
\* SyncDir that was ready when it started has been mirrored.
C6_EveryReadySyncDirMirrored ==
    pc = "sleep" /\ apply.before # "ErrServiceNotStopping" /\ ~apply.failed =>
        \A d \in SyncDirs :
            apply.wasReady[d] => \E i \in 1..Len(apply.mirrored) : apply.mirrored[i] = d

\* C7: once the before-sync hook has returned an error, Apply has returned, no
\* mirror and no after-sync hook has been invoked, and no step changes current.
C7_BeforeSyncErrorAbandonsApply ==
    /\ [](apply.before = "ErrServiceNotStopping" =>
             pc = "sleep" /\ apply.mirrored = <<>> /\ ~apply.after)
    /\ [][apply'.before = "ErrServiceNotStopping" =>
             \A d \in SyncDirs : fs'[d].cur = fs[d].cur]_vars

\* The hook has failed with SyncDirs eligible.
C7_Witness ==
    /\ apply.before = "ErrServiceNotStopping"
    /\ apply.ready # <<>>
    /\ pc = "sleep"

\* What a local directory holds: its files and directories and its two sidecars.
Under(dir) == <<dir.ents, dir.mhash, dir.mcontent>>

\* The services named in the union of current/servicenames and next/servicenames.
NamedServices ==
    Range(readLines(fs["BinDir"].cur.ents["servicenames"]))
        \cup Range(readLines(fs["BinDir"].next.ents["servicenames"]))

\* C8: the mirror loop is entered only after a poll found every named service
\* stopped; while it runs every named service is stopped and no start has been
\* issued; a start is issued only by a hook that has abandoned the wait, no
\* mirror made, or once every eligible SyncDir has been mirrored; what a current
\* holds changes in no other step than a mirror.
C8_MirrorOnlyWhileServicesStopped ==
    /\ [](pc = "mirror" =>
             /\ apply.before = "ok"
             /\ apply.started = {}
             /\ \A s \in NamedServices : svc[s] = "stopped")
    /\ [](apply.started # {} =>
             \/ pc = "restart" /\ apply.mirrored = <<>>
             \/ pc = "after" /\ Len(apply.mirrored) = Len(apply.ready) /\ ~apply.failed
             \/ pc = "sleep")
    /\ [][(\E d \in SyncDirs : Under(fs'[d].cur) # Under(fs[d].cur)) =>
             /\ pc = "mirror"
             /\ \A s \in NamedServices : svc[s] = "stopped" /\ svc'[s] = "stopped"]_vars

\* The mirror loop runs with one service named in current/servicenames only and
\* another in next/servicenames only.
C8_Witness ==
    /\ pc = "mirror"
    /\ NamedServices = {"s1", "s2"}
    /\ apply.ready[apply.i] = "BinDir"

\* The staging tree holds exactly what the manifest m lists.
NextHoldsIdeal(ents, m) ==
    /\ \A i \in 1..Len(m.Files) :
          /\ ents[m.Files[i].Name].kind = "file"
          /\ Visible(ents, m.Files[i].Name)
          /\ Sha256Hex(ents[m.Files[i].Name].body) = m.Files[i].Hash
    /\ \A i \in 1..Len(m.Dirs) : ents[m.Dirs[i]].kind = "dir" /\ Visible(ents, m.Dirs[i])
    /\ \A p \in Paths : ents[p].kind = "file" => nameToFileMap(m, p)

\* Some file of next has the modification time and size of the file of current
\* that has the digest the manifest m lists for it, and other bytes.
SameDatesOtherBytes(sd, m) ==
    \E i \in 1..Len(m.Files) :
        LET F == m.Files[i]
            prev == BuildManifest(sd.cur)
            j == hashToFileMap(prev, F.Hash)
        IN /\ j # 0
           /\ sd.next.ents[F.Name].kind = "file"
           /\ areFileDatesAndSizesEqual(sd.cur.ents[prev.Files[j].Name], sd.next.ents[F.Name])
           /\ Sha256Hex(sd.next.ents[F.Name].body) # F.Hash

LastRun == res.runs[Len(res.runs)]
Ideal == ReadManifest([EmptyDir EXCEPT !.mcontent = pub["BinDir"].content])

\* C9 (as claimed): after a run of the reconciler that returned success, next
\* holds every file of the ideal manifest with the listed digest, every listed
\* directory, and no file that is not listed.
C9_SuccessMeansNextIsIdeal ==
    res.runs # <<>> /\ LastRun.err = "none" => NextHoldsIdeal(fs["BinDir"].next.ents, Ideal)

\* C9 (amended): the same, for runs that start with no file of next that has the
\* dates and size of its source in current and other bytes.
C9_SuccessMeansNextIsIdealUnlessSameDates ==
    res.runs # <<>> /\ LastRun.err = "none" /\ ~SameDatesOtherBytes(LastRun.from, Ideal)
        => NextHoldsIdeal(fs["BinDir"].next.ents, Ideal)

\* A successful run that deleted a file, copied one from current and downloaded one.
C9_Witness ==
    /\ res.runs # <<>>
    /\ LastRun.err = "none"
    /\ ~SameDatesOtherBytes(LastRun.from, Ideal)
    /\ Count(LastRun.log, "rm") > 0
    /\ Count(LastRun.log, "copy") > 0
    /\ Count(LastRun.log, "new") > 0

\* C10 (as claimed): a second successful run against the same ideal manifest
\* deletes, creates, copies and downloads nothing.
C10_SecondRunDoesNothing ==
    Len(res.runs) = 2 /\ res.runs[1].err = "none" /\ res.runs[2].err = "none"
        => \A i \in 1..Len(res.runs[2].log) : res.runs[2].log[i].op = "ready"

-----------------------------------------------------------------------------
(* Claims C11 - C20 *)

\* The operations of a reconciler log that bring bytes to the path p.
Fetched(log, p) ==
    \E i \in 1..Len(log) : log[i].path = p /\ log[i].op \in {"copy", "get", "new"}

\* C11 (as claimed): in every run, an ideal file F for which next/F.Name starts
\* with the modification time and size of some file of current with F's digest
\* is neither copied nor downloaded.
C11_NoWorkWhenSomeSourceHasSameDates ==
    \A k \in 1..Len(res.runs) :
        LET r == res.runs[k]
            prev == BuildManifest(r.from.cur)
        IN \A i \in 1..Len(Ideal.Files), j \in 1..Len(prev.Files) :
              LET F == Ideal.Files[i]
                  P == prev.Files[j]
              IN P.Hash = F.Hash
                 /\ areFileDatesAndSizesEqual(r.from.cur.ents[P.Name], r.from.next.ents[F.Name])
                 => ~Fetched(r.log, F.Name)

\* C11 (amended): the same, P being the file the digest index of current holds
\* for F's digest, the last one in traversal order.
C11_NoWorkWhenIndexedSourceHasSameDates ==
    \A k \in 1..Len(res.runs) :
        LET r == res.runs[k]
            prev == BuildManifest(r.from.cur)
        IN \A i \in 1..Len(Ideal.Files) :
              LET F == Ideal.Files[i]
                  j == hashToFileMap(prev, F.Hash)
              IN j # 0
                 /\ areFileDatesAndSizesEqual(r.from.cur.ents[prev.Files[j].Name],
                                              r.from.next.ents[F.Name])
                 => ~Fetched(r.log, F.Name)

\* A run found a file satisfied by a file of current that has another name, while
\* current holds two files with that digest.
C11_Witness ==
    /\ res.runs # <<>>
    /\ LET prev == BuildManifest(LastRun.from.cur)
       IN \E i \in 1..Len(Ideal.Files) :
             LET F == Ideal.Files[i]
                 j == hashToFileMap(prev, F.Hash)
             IN /\ j # 0
                /\ prev.Files[j].Name # F.Name
                /\ \E j2 \in 1..Len(prev.Files) : j2 # j /\ prev.Files[j2].Hash = F.Hash
                /\ areFileDatesAndSizesEqual(LastRun.from.cur.ents[prev.Files[j].Name],
                                             LastRun.from.next.ents[F.Name])
                /\ \E n \in 1..Len(LastRun.log) :
                      LastRun.log[n] = Op("ready", F.Name)

\* C12 (as claimed): in every run, an ideal file F whose digest no file of current
\* has and whose bytes are already at next/F.Name is not downloaded.
C12_NoDownloadWhenAlreadyInNext ==
    \A k \in 1..Len(res.runs) :
        LET r == res.runs[k]
            prev == BuildManifest(r.from.cur)
        IN \A i \in 1..Len(Ideal.Files) :
              LET F == Ideal.Files[i]
              IN hashToFileMap(prev, F.Hash) = 0
                 /\ r.from.next.ents[F.Name].kind = "file"
                 /\ Sha256Hex(r.from.next.ents[F.Name].body) = F.Hash
                 => ~Fetched(r.log, F.Name)

\* C13 (as claimed): a SyncDir whose reconciliation a failed file GET ended in this
\* tick is not mirrored in this tick.
C13_NoMirrorAfterFailedGet ==
    \A d \in apply.getFailed :
        \A i \in 1..Len(apply.mirrored) : apply.mirrored[i] # d

\* The publisher serves one consistent release for the SyncDir d.
ServesRelease(d) == HashIndex(d) = ContentIndex(d)

\* current of d holds the files and directories of the tree ents, and no others.
CurrentHolds(d, ents) ==
    \A p \in Paths :
        /\ fs[d].cur.ents[p].kind = ents[p].kind
        /\ fs[d].cur.ents[p].body = ents[p].body

\* The clock readings of a fetch of the SyncDir d during which the clock stands
\* still.
ClockStill(d) == [k \in 1..Len(pub[d].content.Files) |-> now]

\* The GETs of the manifests that fail during one fetch.
FetchFailSets == SUBSET {ManifestFilename_Hash, ManifestFilename_Content}

\* A tick without failures that starts in this state writes nothing but the
\* bytes manifest.hash already holds, and mirrors nothing: every later tick
\* without failures starts in the same state.
Quiescent ==
    /\ \A d \in SyncDirs :
          LET r == fetch(fs[d], pub[d], {}, ClockStill(d))
          IN /\ r.probe = "ok"
             /\ r.next = fs[d].next
             /\ r.err = "none"
             /\ \A i \in 1..Len(r.log) : r.log[i].op = "ready"
    /\ LET c == CollectReady(1, [ready |-> <<>>, err |-> "none", checked |-> apply.checked])
       IN c.err # "none" \/ c.ready = <<>>

\* C14 (as claimed): with the publisher serving one consistent release and no
\* failures, the engine eventually has that release in current; so a state that
\* ticks without failures leave as it is has that release in current.
C14_QuiescentOnlyWhenCurrentHoldsRelease ==
    pc = "sleep" /\ (\A d \in SyncDirs : ServesRelease(d)) /\ Quiescent
        => \A d \in SyncDirs :
              /\ CurrentHolds(d, Catalog[d][HashIndex(d)])
              /\ ~isReadyToApply(fs[d]).ready

\* C15: a reconciliation that ends with ErrManifestInconsistent has changed no file
\* and no directory under next, nor current, and its SyncDir is not mirrored in
\* that tick.
C15_InconsistentPairTouchesNothing ==
    /\ [](\A d \in apply.inconsistent :
             \A i \in 1..Len(apply.mirrored) : apply.mirrored[i] # d)
    /\ [][\A d \in SyncDirs :
             d \in apply'.inconsistent /\ d \notin apply.inconsistent =>
                 /\ fs'[d].next.ents = fs[d].next.ents
                 /\ fs'[d].next.mcontent = pub[d].content
                 /\ fs'[d].cur = fs[d].cur]_vars

\* The pair was inconsistent for one SyncDir whose staging tree held files, and
\* the other SyncDir was mirrored in the same tick.
C15_Witness ==
    /\ apply.mirrored # <<>>
    /\ \E d \in apply.inconsistent :
          /\ \E p \in Paths : fs[d].next.ents[p].kind = "file"
          /\ hash(ReadManifest(fs[d].next)) # hash(BuildManifest(fs[d].next))

\* The publisher holds its first release of every SyncDir, as it has from the
\* start (it goes through its catalog in one direction).
HoldsFirstRelease == \A d \in SyncDirs : pub[d] = Releases[d][1]

\* C16: when the first tick, started with nothing in current and next and run without
\* a failure, the publisher holding one release, returns from Apply, current
\* holds every file of the release with the published bytes and isReadyToApply is
\* false, also after the fetch of the next tick.
C16_FreshInstallConverges ==
    pc = "sleep" /\ apply.fresh /\ apply.before = "ok" /\ ~apply.failed /\ HoldsFirstRelease =>
        \A d \in SyncDirs :
            /\ CurrentHolds(d, Catalog[d][1])
            /\ ~isReadyToApply(fs[d]).ready
            /\ ~isReadyToApply([fs[d] EXCEPT !.next = fetch(fs[d], pub[d], {}, ClockStill(d)).next]).ready

\* The first tick has mirrored both SyncDirs and started the services.
C16_Witness ==
    /\ pc = "sleep"
    /\ apply.fresh
    /\ apply.before = "ok"
    /\ ~apply.failed
    /\ apply.after
    /\ Len(apply.mirrored) = 2
    /\ HoldsFirstRelease

\* The SyncDir whose fetch is next in Download.
Fetching == allSyncDirs[apply.i]

\* The positions of the Run loop at the call of fetch and while the GET of
\* manifest.hash is pending.
InFetch == {"ensure", "fetch"}

\* The manifest.hash the server serves is the one the previous cycle staged.
HashAlreadyStaged(d) ==
    /\ pub[d].hash.st = "ok"
    /\ fs[d].next.mhash = pub[d].hash

\* C17 (as claimed): a fetch that finds the server's manifest.hash equal to the one
\* of the release staged in next does not call the reconciler, so that
\* manifest.content and the files are not requested, applied or not.
C17_NoGetBeyondProbeWhenHashStaged ==
    pc \in InFetch /\ HashAlreadyStaged(Fetching)
                 /\ StagedTreeHashesToInventory(fs[Fetching].next) =>
        \A fails \in FetchFailSets :
            ~fetch(fs[Fetching], pub[Fetching], fails, ClockStill(Fetching)).run

\* C18 (as claimed): a fetch that finds the server's manifest.hash equal to the one
\* staged in next writes no file under next: neither the probe nor the
\* reconciler writes.
C18_NoWriteWhenHashUnchanged ==
    pc \in InFetch /\ HashAlreadyStaged(Fetching) =>
        \A fails \in FetchFailSets :
            LET r == fetch(fs[Fetching], pub[Fetching], fails, ClockStill(Fetching))
            IN r.probe # "ok" /\ ~r.run

\* The names of the files of a manifest, and the digest it lists for a name.
Names(m) == {m.Files[i].Name : i \in 1..Len(m.Files)}
HashOf(m, n) == m.Files[CHOOSE i \in 1..Len(m.Files) : m.Files[i].Name = n].Hash

\* The run r started after a release had been applied: robocopy had made current
\* a copy of next, modification times included.
StartsApplied(r) == r.from.cur.ents = r.from.next.ents

\* The release applied when the run r started, as a manifest.
Applied(r) == BuildManifest(r.from.cur)

\* No two files of the manifest m have the same digest.
DistinctDigests(m) ==
    \A i, j \in 1..Len(m.Files) : m.Files[i].Hash = m.Files[j].Hash => i = j

\* The files the ideal manifest lists with another digest than the applied release.
Changed(r) == {n \in Names(Ideal) \cap Names(Applied(r)) : HashOf(Ideal, n) # HashOf(Applied(r), n)}

\* The ideal manifest is the applied release with the content of one file changed.
OneFileChanged(r) ==
    /\ StartsApplied(r)
    /\ r.err = "none"
    /\ Names(Ideal) = Names(Applied(r))
    /\ Ideal.Dirs = Applied(r).Dirs
    /\ Cardinality(Changed(r)) = 1

\* The run downloaded the one changed file, found every other file ready, and
\* copied and removed nothing.
OnlyChangedFileDownloaded(r) ==
    /\ Count(r.log, "new") = 1
    /\ \A i \in 1..Len(r.log) : r.log[i].op = "new" => r.log[i].path \in Changed(r)
    /\ Count(r.log, "ready") = Len(Ideal.Files) - 1
    /\ Count(r.log, "copy") = 0
    /\ Count(r.log, "rm") = 0
    /\ Count(r.log, "rmdir") = 0

\* C19 (as claimed): after a release has been applied, a run for a release that
\* changes the content of one file downloads that file and nothing else, finds
\* every other file ready and copies and removes nothing.
C19_SingleChangeDownloadsOneFile ==
    \A k \in 1..Len(res.runs) :
        OneFileChanged(res.runs[k]) => OnlyChangedFileDownloaded(res.runs[k])

\* C19 (amended): the same, when no two files of the applied release hold the
\* same bytes and the new content is that of no file of the applied release.
C19_SingleChangeDownloadsOneFileDistinct ==
    \A k \in 1..Len(res.runs) :
        LET r == res.runs[k]
        IN OneFileChanged(r)
           /\ DistinctDigests(Applied(r))
           /\ (\A n \in Changed(r) : hashToFileMap(Applied(r), HashOf(Ideal, n)) = 0)
           => OnlyChangedFileDownloaded(r)

\* A run after an applied release of two files downloaded one and found the
\* other ready.
C19_Witness ==
    /\ res.runs # <<>>
    /\ OneFileChanged(LastRun)
    /\ DistinctDigests(Applied(LastRun))
    /\ \A n \in Changed(LastRun) : hashToFileMap(Applied(LastRun), HashOf(Ideal, n)) = 0
    /\ Count(LastRun.log, "new") = 1
    /\ Count(LastRun.log, "ready") = 1

\* The ideal manifest is the applied release with the file o renamed to n.
Renamed(r, o, n) ==
    /\ StartsApplied(r)
    /\ r.err = "none"
    /\ o \in Names(Applied(r))
    /\ n \notin Names(Applied(r))
    /\ Names(Ideal) = (Names(Applied(r)) \ {o}) \cup {n}
    /\ HashOf(Ideal, n) = HashOf(Applied(r), o)
    /\ \A m \in Names(Ideal) \ {n} : HashOf(Ideal, m) = HashOf(Applied(r), m)

\* The run downloaded nothing, copied to the new name only and removed the old
\* name only.
RenameByCopy(r, o, n) ==
    /\ Count(r.log, "new") = 0
    /\ Count(r.log, "get") = 0
    /\ Count(r.log, "copy") = 1
    /\ Count(r.log, "rm") = 1
    /\ \A i \in 1..Len(r.log) :
          /\ r.log[i].op = "copy" => r.log[i].path = n
          /\ r.log[i].op = "rm" => r.log[i].path = o

\* C20 (as claimed): after a release has been applied, a run for a release that
\* renames one file downloads nothing, copies one file, to the new name, and
\* removes one file, the old name.
C20_RenameCopiesOneFile ==
    \A k \in 1..Len(res.runs) : \A o, n \in Paths :
        Renamed(res.runs[k], o, n) => RenameByCopy(res.runs[k], o, n)

\* C20 (amended): the same, when no two files of the applied release hold the
\* same bytes.
C20_RenameCopiesOneFileDistinct ==
    \A k \in 1..Len(res.runs) : \A o, n \in Paths :
        Renamed(res.runs[k], o, n) /\ DistinctDigests(Applied(res.runs[k]))
            => RenameByCopy(res.runs[k], o, n)

\* A run after an applied release of two files renamed one into a new directory
\* and found the other ready.
C20_Witness ==
    /\ res.runs # <<>>
    /\ Renamed(LastRun, "d", "d/a")
    /\ DistinctDigests(Applied(LastRun))
    /\ Count(LastRun.log, "ready") = 1
    /\ Count(LastRun.log, "copy") = 1
    /\ Count(LastRun.log, "mkdir") = 1

-----------------------------------------------------------------------------
(* Claims C21 - C30 *)

\* In the log, an operation of the kinds 'first' on the path p precedes every
\* operation of the kinds 'then' on p, and there is one of each.
Precedes(log, p, first, then) ==
    /\ \E i \in 1..Len(log) : log[i].path = p /\ log[i].op \in first
    /\ \E j \in 1..Len(log) : log[j].path = p /\ log[j].op \in then
    /\ \A i, j \in 1..Len(log) :
          log[i].path = p /\ log[i].op \in first /\ log[j].path = p /\ log[j].op \in then
              => i < j

\* The tree holds the file p with the digest the manifest m lists for it.
HoldsListedFile(ents, m, p) ==
    /\ ents[p].kind = "file"
    /\ Visible(ents, p)
    /\ Sha256Hex(ents[p].body) = HashOf(m, p)

\* C21: after a successful run, a path that was a directory in next and is a file
\* in the ideal manifest is a file with the listed digest, the directory removed
\* before the file was copied or downloaded; a path that was a file in next and is
\* a directory in the ideal manifest is a directory that holds the files listed
\* under it, the file removed before the directory was created.
C21_KindReplaced ==
    res.runs # <<>> /\ LastRun.err = "none" =>
        \A p \in Paths :
            /\ LastRun.from.next.ents[p].kind = "dir" /\ nameToFileMap(Ideal, p) =>
                  /\ HoldsListedFile(fs["BinDir"].next.ents, Ideal, p)
                  /\ Precedes(LastRun.log, p, {"rmdir"}, {"copy", "new"})
            /\ LastRun.from.next.ents[p].kind = "file" /\ nameToDirMap(Ideal, p) =>
                  /\ fs["BinDir"].next.ents[p].kind = "dir"
                  /\ \A q \in Names(Ideal) :
                        p \in Ancestors(q) => HoldsListedFile(fs["BinDir"].next.ents, Ideal, q)
                  /\ Precedes(LastRun.log, p, {"rm"}, {"mkdir"})

\* A successful run replaced the directory d, which held a file, by the file d,
\* which it downloaded.
C21_Witness ==
    /\ res.runs # <<>>
    /\ LastRun.err = "none"
    /\ LastRun.from.next.ents["d"].kind = "dir"
    /\ LastRun.from.next.ents["d/a"].kind = "file"
    /\ nameToFileMap(Ideal, "d")
    /\ Count(LastRun.log, "rm") = 1
    /\ Count(LastRun.log, "rmdir") = 1
    /\ LastRun.log[Len(LastRun.log)] = Op("new", "d")

\* The polling loop of the before-sync hook is at the query of the last service
\* of its list.
LastQuery == pc = "poll" /\ apply.k >= Len(apply.services)

\* The services the iteration in progress of the polling loop has found running,
\* the one it is about to query included if sc does not report it STOPPED.
FoundRunning ==
    Range(apply.running) \cup
        {s \in (IF apply.services = <<>> THEN {} ELSE {apply.services[apply.k]}) :
            isServiceRunning(s)}

\* A poll of the before-sync hook finds a named service running when the time
\* gone by since the polling began exceeds ServiceStopWaitSeconds.
StopTimedOut ==
    /\ LastQuery
    /\ apply.waited >= ServiceStopWaitSeconds
    /\ FoundRunning # {}

\* C22: the poll that finds a named service running after the wait has elapsed
\* abandons the wait, and the wait is abandoned in no other case; the hook then
\* issues a start to each service it issued a stop to, in the order of the list,
\* and returns ErrServiceNotStopping with all of them running; the Apply returns
\* with no mirror invoked.
C22_TimeoutRestartsAndAbandons ==
    /\ [][StopTimedOut /\ pc' # pc => pc' = "restart"]_vars
    /\ [][pc' = "restart" /\ pc # "restart" => StopTimedOut]_vars
    /\ [](pc = "restart" =>
             /\ apply.before = "none"
             /\ apply.mirrored = <<>>
             /\ apply.started = {apply.services[j] : j \in 1..(apply.k - 1)})
    /\ [][pc = "restart" /\ pc' # "restart" =>
             /\ pc' = "sleep"
             /\ apply'.before = "ErrServiceNotStopping"
             /\ apply'.started = Range(apply.services)
             /\ \A s \in Range(apply.services) : svc'[s] = "running"]_vars
    /\ [][apply'.before = "ErrServiceNotStopping" /\ apply.before # "ErrServiceNotStopping"
             => pc = "restart"]_vars
    /\ [](apply.before = "ErrServiceNotStopping" => apply.mirrored = <<>>)

\* The hook has timed out with two services named and SyncDirs ready; both
\* services have been started again and nothing has been mirrored.
C22_Witness ==
    /\ apply.before = "ErrServiceNotStopping"
    /\ apply.services = <<"s1", "s2">>
    /\ apply.started = {"s1", "s2"}
    /\ \A s \in Services : svc[s] = "running"
    /\ apply.ready # <<>>
    /\ apply.mirrored = <<>>

\* Where the Run loop was when the process ended: in Download with a GET made
\* and another still to make, in the before-sync hook after its first stop, in
\* Apply between the before-sync hook and the last mirror, or in the after-sync
\* hook between two starts.
StoppedInFlight ==
    \/ res.stoppedAt \in {"ensure", "fetch"} /\ apply.i > 1
    \/ res.stoppedAt \in {"content", "file"}
    \/ res.stoppedAt = "stop" /\ apply.k > 1
    \/ res.stoppedAt \in {"poll", "wait", "restart"}
    \/ res.stoppedAt = "mirror"
    \/ res.stoppedAt = "after" /\ apply.k > 1

\* C23 (as claimed): a stop request of the service host ends the process only
\* while the Run loop is at the sleep between two ticks, never while a Download,
\* a before-sync hook, the mirror loop or an after-sync hook is in progress.
C23_StopOnlyAtSleep ==
    pc = "exited" => ~StoppedInFlight

\* The positions of the Run loop inside Download and inside Apply.
InDownload == {"ensure", "fetch", "content", "file"}
InApply == {"check", "stop", "poll", "wait", "restart", "mirror", "after"}

\* C24: Download fetches the SyncDirs in order and is left only after the fetch
\* of the last one, for the readiness checks of Apply; a staging tree changes
\* only in Download, and then the one of the SyncDir being fetched; what current
\* holds changes and the services' hooks act only in Apply; the sleep follows the return of Apply
\* and the next Download follows the sleep.
C24_DownloadThenApplyThenSleep ==
    /\ [][(pc \in InDownload /\ pc' \notin InDownload)
             => apply.i = Len(allSyncDirs) /\ pc' = "check"]_vars
    /\ [][(pc \in InDownload /\ pc' \in InDownload /\ apply'.i # apply.i)
             => apply'.i = apply.i + 1 /\ pc' = "ensure"]_vars
    /\ [][\A d \in SyncDirs :
             fs'[d].next # fs[d].next => pc \in InDownload /\ allSyncDirs[apply.i] = d]_vars
    /\ [][(\E d \in SyncDirs : Under(fs'[d].cur) # Under(fs[d].cur))
             \/ apply'.started # apply.started
             \/ apply'.checked # apply.checked
             => pc \in InApply \/ pc' = "ensure"]_vars
    /\ [][pc' = "sleep" /\ pc # "sleep" => pc \in InApply]_vars
    /\ [][(pc' \in InDownload /\ pc \notin InDownload)
             => pc = "sleep" /\ pc' = "ensure" /\ apply'.i = 1]_vars
    /\ [][(pc \in InApply) => (pc' \in InApply \cup {"sleep"})]_vars

\* Apply is about to mirror the second of two ready SyncDirs, in a tick that is
\* not a failure-free first tick.
C24_Witness ==
    /\ pc = "mirror"
    /\ apply.i = 2
    /\ Len(apply.ready) = 2
    /\ ~apply.fresh

\* C25 (as claimed): a fetch whose GET of manifest.hash does not return 200 leaves
\* next/manifest.hash as it was, does not call the reconciler, so that neither
\* manifest.content nor a file is requested, and leaves what next holds as it
\* was.
C25_FailedProbeDoesNothing ==
    pc \in InFetch /\ ensureDirExists(fs[Fetching].cur).err = "none"
                 /\ ensureDirExists(fs[Fetching].next).err = "none" =>
        LET r == fetch(fs[Fetching], pub[Fetching], {ManifestFilename_Hash}, ClockStill(Fetching))
        IN /\ r.probe = "failed"
           /\ r.next.mhash = fs[Fetching].next.mhash
           /\ ~r.run
           /\ Under(r.next) = Under(fs[Fetching].next)

\* C26 (as claimed): no step of Download changes a current tree; a current tree
\* changes only in a mirror step of Apply, and then only the one of the SyncDir
\* being mirrored.
C26_CurrentChangesOnlyInMirror ==
    /\ [][(pc \in InDownload) => (\A d \in SyncDirs : fs'[d].cur = fs[d].cur)]_vars
    /\ [][\A d \in SyncDirs :
             fs'[d].cur # fs[d].cur => pc = "mirror" /\ apply.ready[apply.i] = d]_vars

\* The fetch of the SyncDir d creates the root of its current, which did not
\* exist, and puts nothing in it.
CreatesRoot(d) ==
    /\ pc = "ensure"
    /\ allSyncDirs[apply.i] = d
    /\ fs[d].cur.absent
    /\ fs'[d].cur = [fs[d].cur EXCEPT !.absent = FALSE]
    /\ Under(fs'[d].cur) = Under(EmptyDir)

\* C26 (amended): no step of Download changes a file, a directory or a sidecar
\* under a current tree; a current tree changes only in a mirror step of Apply,
\* and then only the one of the SyncDir being mirrored, or when the fetch of its
\* SyncDir creates its root directory, which did not exist, with nothing in it.
C26_CurrentChangesOnlyInMirrorOrRootCreation ==
    /\ [][(pc \in InDownload) =>
             (\A d \in SyncDirs : Under(fs'[d].cur) = Under(fs[d].cur))]_vars
    /\ [][\A d \in SyncDirs :
             fs'[d].cur # fs[d].cur =>
                 \/ pc = "mirror" /\ apply.ready[apply.i] = d
                 \/ CreatesRoot(d)]_vars

\* Download has staged the second release of BinDir in next, a file deleted and
\* a file downloaded, while current holds the first; the fetch of ConfDir, whose
\* staging directory cannot be created, has created the root of its current.
C26_Witness ==
    /\ pc = "check"
    /\ CurrentHolds("BinDir", Catalog["BinDir"][1])
    /\ fs["BinDir"].cur.mhash = Releases["BinDir"][1].hash
    /\ fs["BinDir"].next.ents["a"].kind = "none"
    /\ fs["BinDir"].next.ents["servicenames"].body = "s2"
    /\ fs["BinDir"].next.mhash = Releases["BinDir"][2].hash
    /\ fs["ConfDir"].cur = EmptyDir
    /\ fs["ConfDir"].next = NoDir

\* C27: whatever GETs, readiness checks, hooks and mirrors fail, a tick that has
\* started reaches the sleep and the sleep is followed by the Download of another
\* tick.
C27_EveryTickSleepsAndResumes ==
    /\ (pc \in {"ensure", "fetch"}) ~> (pc = "sleep")
    /\ (pc = "sleep") ~> (pc = "ensure")

\* A tick begins after a tick in which the mirror of a SyncDir failed.
C27_Witness ==
    /\ pc = "ensure"
    /\ \E d \in SyncDirs : apply.retry[d] = "due"

\* Two trees have the same paths, of the same kinds, and the same file contents.
SameTree(t1, t2) ==
    \A p \in DOMAIN t1 : t1[p].kind = t2[p].kind /\ t1[p].body = t2[p].body

\* t2 is t1 with the file o renamed to n, a name t1 does not have.
RenamedOneFile(t1, t2, o, n) ==
    /\ o # n
    /\ t1[o].kind = "file"
    /\ t1[n].kind = "none"
    /\ SameTree([t1 EXCEPT ![n] = t1[o], ![o] = t1[n]], t2)

\* t2 is t1 with the content of the file p changed.
ChangedOneContent(t1, t2, p) ==
    /\ t1[p].kind = "file"
    /\ t2[p].kind = "file"
    /\ t1[p].body # t2[p].body
    /\ SameTree([t1 EXCEPT ![p] = t2[p]], t2)

\* C28 (as claimed): two trees with the same paths and contents and the same
\* directories feed the same bytes to the envelope digest; a tree and the tree
\* with one file renamed, or with the content of one file changed, feed other
\* bytes.
C28_DigestStableAndSensitive ==
    pc = "digestDone" =>
        LET t1 == fs["BinDir"].cur.ents
            t2 == fs["BinDir"].next.ents
        IN /\ SameTree(t1, t2) => res.fed[1] = res.fed[2]
           /\ \A o, n \in DigestPaths : RenamedOneFile(t1, t2, o, n) => res.fed[1] # res.fed[2]
           /\ \A p \in DigestPaths : ChangedOneContent(t1, t2, p) => res.fed[1] # res.fed[2]

\* C29 (as claimed): the manifest built from a tree, with digests, lists no file
\* whose name is manifest.content or manifest.hash in whatever directory, and so
\* does the list of names built without digests.
C29_NoSidecarAtAnyLevel ==
    pc = "scanDone" =>
        /\ \A i \in 1..Len(res.scanned[1]) :
              Base(res.scanned[1][i].Name) \notin {ManifestFilename_Content, ManifestFilename_Hash}
        /\ \A i \in 1..Len(res.scanned[2]) :
              Base(res.scanned[2][i]) \notin {ManifestFilename_Content, ManifestFilename_Hash}

\* C30 (as claimed): for a readable manifest.content, the consistency check
\* against a manifest.hash gives what it gives for the same file without what
\* follows its hex digits.
C30_TrailingWhitespaceTolerated ==
    pc = "gateDone" =>
        LET next == fs["BinDir"].next
            m == ReadManifest(next)
        IN m.err = "none" /\ next.mhash.st = "ok" =>
              isConsistentWithHash(m, next)
                  = isConsistentWithHash(m, [next EXCEPT !.mhash.tail = ""])

-----------------------------------------------------------------------------
(* Claims C31 - C40 *)

\* The loop of downloadContentHttp an operation of the log belongs to: the
\* deletion of stray files, the removal of stray directories, the creation of
\* directories, the retrieval of files.
Stage(o) ==
    CASE o = "rm" -> 1
      [] o = "rmdir" -> 2
      [] o = "mkdir" -> 3
      [] OTHER -> 4

\* C31: in the log of every run, each deletion of a stray file precedes each
\* removal of a stray directory, which precedes each creation of a directory,
\* which precedes each copy or download (tried or done): nothing is brought to
\* next before the pruning has finished.
C31_PruneThenCreateThenRetrieve ==
    \A k \in 1..Len(res.runs) :
        LET log == res.runs[k].log
        IN \A i, j \in 1..Len(log) : i < j => Stage(log[i].op) <= Stage(log[j].op)

\* One run has deleted a stray file, removed a stray directory, created a
\* directory, copied a file from current and downloaded another.
C31_Witness ==
    /\ res.runs # <<>>
    /\ LastRun.err = "none"
    /\ Count(LastRun.log, "rm") > 0
    /\ Count(LastRun.log, "rmdir") > 0
    /\ Count(LastRun.log, "mkdir") > 0
    /\ Count(LastRun.log, "copy") > 0
    /\ Count(LastRun.log, "new") > 0

\* The directories of a tree.
DirSet(t) == {p \in DOMAIN t : t[p].kind = "dir"}

\* C32 (as claimed): two trees whose manifests differ in a file name, a file
\* digest or a directory path feed different bytes to the envelope digest; so do
\* two trees that have the same files and different sets of directories.
C32_DistinctManifestsDistinctFeed ==
    pc = "digestDone" =>
        LET cur == fs["BinDir"].cur
            next == fs["BinDir"].next
        IN /\ BuildManifest(cur) # BuildManifest(next) => res.fed[1] # res.fed[2]
           /\ BuildManifest(cur).Files = BuildManifest(next).Files
                  /\ DirSet(cur.ents) # DirSet(next.ents)
                  => res.fed[1] # res.fed[2]

\* C33: the step in which a mirror fails ends the Apply and touches no other
\* SyncDir; until the next tick no mirror is invoked and no current tree changes,
\* so that the SyncDirs mirrored before the failure stay copies of their staging
\* trees.
C33_MirrorFailureStopsApply ==
    /\ [][apply'.failed /\ ~apply.failed =>
             /\ pc = "mirror" /\ pc' = "sleep"
             /\ apply'.mirrored = Append(apply.mirrored, apply.ready[apply.i])
             /\ \A d \in SyncDirs \ {apply.ready[apply.i]} : fs'[d] = fs[d]]_vars
    /\ [][apply.failed =>
             /\ apply'.mirrored = apply.mirrored \/ apply'.mirrored = <<>>
             /\ \A d \in SyncDirs : fs'[d].cur = fs[d].cur]_vars
    /\ [](apply.failed =>
             \A i \in 1..(Len(apply.mirrored) - 1) :
                 fs[apply.mirrored[i]].cur = fs[apply.mirrored[i]].next)

\* The mirror of the first of two eligible SyncDirs has failed and the second
\* has not been mirrored.
C33_Witness ==
    /\ apply.failed
    /\ apply.ready = <<"BinDir", "ConfDir">>
    /\ apply.mirrored = <<"BinDir">>
    /\ fs["ConfDir"].cur # fs["ConfDir"].next

\* C34 (as claimed): when an Apply in which every mirror succeeded returns, the
\* after-sync hook has issued a start to every service the before-sync hook
\* issued a stop to.
C34_EveryStoppedServiceStarted ==
    pc = "sleep" /\ apply.after => Range(apply.services) \subseteq apply.started

\* C35: the before-sync hook issues a stop to every service named in
\* current/servicenames or in next/servicenames of BinDir, one after the other,
\* so that none of them is left running when the polling begins, and it returns
\* success only from a poll that finds every one of them stopped: the mirror loop
\* begins with all of them stopped.
C35_UnionStoppedBeforeMirror ==
    /\ [](pc = "stop" /\ apply.k > 1 =>
             /\ Range(apply.services) = NamedServices
             /\ \A j \in 1..(apply.k - 1) : svc[apply.services[j]] # "running")
    /\ [][pc = "stop" /\ pc' = "poll" =>
             /\ Range(apply'.services) = NamedServices
             /\ \A s \in NamedServices : svc'[s] # "running"]_vars
    /\ [][pc = "poll" /\ pc' = "mirror" =>
             \A s \in NamedServices : s \in Range(apply.services) /\ svc[s] = "stopped"]_vars

\* The mirror loop begins with s1 named in current/servicenames only and s2 in
\* next/servicenames only, both stopped after a stop was issued to each.
C35_Witness ==
    /\ pc = "mirror"
    /\ apply.mirrored = <<>>
    /\ readLines(fs["BinDir"].cur.ents["servicenames"]) = <<"s1">>
    /\ readLines(fs["BinDir"].next.ents["servicenames"]) = <<"s2">>
    /\ apply.services = <<"s1", "s2">>
    /\ \A s \in Services : svc[s] = "stopped"

\* C36: the before-sync hook, once called, returns. The polling loop queries the
\* services of its list one by one; an iteration that has found every one of
\* them stopped returns success; an iteration that has found one running
\* abandons the wait if more than ServiceStopWaitSeconds have gone by, which is
\* so once the hook has slept that many seconds, and otherwise sleeps one second
\* and starts over; the hook that has abandoned the wait returns
\* ErrServiceNotStopping; the hook sleeps at most ServiceStopWaitSeconds times.
C36_BeforeSyncReturns ==
    /\ (pc = "stop") ~> (apply.before # "none")
    /\ [](pc = "poll" /\ apply.services # <<>> =>
             /\ Range(apply.running) \subseteq {apply.services[j] : j \in 1..(apply.k - 1)}
             /\ \A j \in 1..(apply.k - 1) :
                   apply.services[j] \notin Range(apply.running) =>
                       svc[apply.services[j]] = "stopped")
    /\ [][pc = "poll" /\ pc' = pc /\ apply'.k # apply.k =>
             /\ ~LastQuery
             /\ apply'.k = apply.k + 1
             /\ Range(apply'.running) = FoundRunning]_vars
    /\ [][pc = "poll" /\ pc' # pc => LastQuery]_vars
    /\ [][pc = "poll" /\ pc' # pc /\ FoundRunning = {} =>
             apply'.before = "ok" /\ pc' = "mirror"]_vars
    /\ [][pc = "poll" /\ pc' # pc /\ FoundRunning # {} =>
             /\ apply'.before = "none"
             /\ apply'.waited = apply.waited
             /\ pc' = IF apply.waited >= ServiceStopWaitSeconds THEN "restart" ELSE "wait"]_vars
    /\ [][pc = "wait" /\ pc' # pc =>
             pc' = "poll" /\ apply'.waited = apply.waited + 1 /\ apply'.k = 1
                 /\ apply'.running = <<>>]_vars
    /\ [][pc = "restart" /\ pc' # pc => apply'.before = "ErrServiceNotStopping"]_vars
    /\ [](pc = "poll" => apply.waited <= ServiceStopWaitSeconds)
    /\ [](pc = "wait" => apply.waited < ServiceStopWaitSeconds)
    /\ [](apply.before # "none" => pc \notin {"stop", "poll", "wait", "restart"})

\* The hook has returned ErrServiceNotStopping for two named services after
\* ServiceStopWaitSeconds sleeps.
C36_Witness ==
    /\ apply.before = "ErrServiceNotStopping"
    /\ apply.waited = ServiceStopWaitSeconds
    /\ Len(apply.services) = 2
    /\ pc = "sleep"

\* The staging tree the k-th recorded run left.
NextAfterRun(k) ==
    IF k < Len(res.runs) THEN res.runs[k + 1].from.next ELSE fs["BinDir"].next

\* What a staging tree holds at the path p before a file is written there: the
\* file it held, or nothing (a directory at p has been removed as stray).
FileBefore(ents, p) == IF ents[p].kind = "file" THEN ents[p] ELSE NoEntry

\* C37: a failed GET of manifest.hash leaves next/manifest.hash as it was; a
\* failed GET of manifest.content makes the reconciler return the error with
\* next/manifest.content and the tree as they were; a failed GET of a file makes
\* it return the error with that file as it was, not created if it did not exist.
C37_FailedGetLeavesDestination ==
    /\ \A k \in 1..Len(res.runs) :
          LET r == res.runs[k]
          IN FileGetFailed(r) =>
                LET p == r.log[Len(r.log)].path
                IN NextAfterRun(k).ents[p] = FileBefore(r.from.next.ents, p)
    /\ LET sd == fs["BinDir"]
           srv == pub["BinDir"]
           h == fetch(sd, srv, {ManifestFilename_Hash}, ClockStill("BinDir"))
           c == fetch(sd, srv, {ManifestFilename_Content}, ClockStill("BinDir"))
       IN /\ h.probe = "failed"
          /\ h.next.mhash = sd.next.mhash
          /\ c.run => /\ c.err = "http"
                      /\ c.next.mcontent = sd.next.mcontent
                      /\ c.next.ents = sd.next.ents

\* A run that had removed a stray file ended with the failed GET of the file a,
\* which next held with other bytes and still holds as it was.
C37_Witness ==
    /\ res.runs # <<>>
    /\ FileGetFailed(LastRun)
    /\ LastRun.log[Len(LastRun.log)] = Op("get", "a")
    /\ Count(LastRun.log, "rm") > 0
    /\ LastRun.from.next.ents["a"].kind = "file"
    /\ fs["BinDir"].next.ents["a"] = LastRun.from.next.ents["a"]
    /\ fetch(fs["BinDir"], pub["BinDir"], {ManifestFilename_Content}, ClockStill("BinDir")).run

\* In the SyncDir sd, next holds at the name of the i-th file F of the manifest m
\* a file with the modification time and size of current/P.Name and with other
\* bytes than F's, P being the entry the reconciler's digest index of current
\* holds for F.Hash.
StaleTwin(sd, m, i) ==
    LET F == m.Files[i]
        prev == BuildManifest(sd.cur)
        j == hashToFileMap(prev, F.Hash)
    IN /\ j # 0
       /\ sd.next.ents[F.Name].kind = "file"
       /\ areFileDatesAndSizesEqual(sd.cur.ents[prev.Files[j].Name], sd.next.ents[F.Name])
       /\ Sha256Hex(sd.next.ents[F.Name].body) # F.Hash

\* C38: a run that starts with such a file at next/F.Name neither copies nor
\* downloads F and leaves the file as it is; if it returns success it has counted
\* F as ready; and after it isReadyToApply is false. The next run, current and
\* the release unchanged, starts with the same file and does the same.
C38_StaleTwinNeverRepaired ==
    \A k \in 1..Len(res.runs) :
        LET r == res.runs[k]
        IN \A i \in 1..Len(Ideal.Files) :
              StaleTwin(r.from, Ideal, i) =>
                 LET n == Ideal.Files[i].Name
                 IN /\ ~Fetched(r.log, n)
                    /\ NextAfterRun(k).ents[n] = r.from.next.ents[n]
                    /\ r.err = "none" => \E e \in 1..Len(r.log) : r.log[e] = Op("ready", n)
                    /\ StaleTwin([cur |-> r.from.cur, next |-> NextAfterRun(k)], Ideal, i)
                    /\ ~isReadyToApply([cur |-> r.from.cur, next |-> NextAfterRun(k)]).ready

\* Two runs in a row returned success, each counting as ready the file a, which
\* holds other bytes than the release's and has the dates and size of current/a;
\* everything else in next is as the release lists it.
C38_Witness ==
    /\ Len(res.runs) = 2
    /\ res.runs[1].err = "none"
    /\ res.runs[2].err = "none"
    /\ \E i \in 1..Len(Ideal.Files) :
          /\ Ideal.Files[i].Name = "a"
          /\ StaleTwin(res.runs[1].from, Ideal, i)
          /\ StaleTwin(res.runs[2].from, Ideal, i)
          /\ StaleTwin(fs["BinDir"], Ideal, i)
    /\ Len(Ideal.Files) = 2
    /\ Count(res.runs[1].log, "new") = 1
    /\ \A e \in 1..Len(res.runs[2].log) : res.runs[2].log[e].op = "ready"
    /\ manifestHashIsReadableAndNew(fs["BinDir"])
    /\ ~isReadyToApply(fs["BinDir"]).ready

\* Whatever has gone wrong in the fetch of a SyncDir, Download goes on to the
\* fetch of the next SyncDir of the list, and returns only after the fetch of the
\* last.
DownloadGoesOn ==
    /\ [][(pc \in InDownload /\ (apply'.i # apply.i \/ pc' \notin InDownload)) =>
             IF apply.i < Len(allSyncDirs)
             THEN pc' = "ensure" /\ apply'.i = apply.i + 1
             ELSE pc' = "check"]_vars
    /\ [][pc = "sleep" /\ pc' # pc => pc' = "ensure" /\ apply'.i = 1]_vars

\* The fetch of the SyncDir that is next in Download probes the hash: it
\* requests manifest.hash and, if the GET returns 200, writes what the server
\* serves to next/manifest.hash.
ProbesHash ==
    \A fails \in FetchFailSets :
        LET r == fetch(fs[Fetching], pub[Fetching], fails, ClockStill(Fetching))
        IN IF ManifestFilename_Hash \in fails
           THEN r.probe = "failed"
           ELSE r.probe = "ok" /\ r.next.mhash = pub[Fetching].hash

\* The two local directories of the SyncDir that is next in Download exist or
\* can be created.
HasLocalDirs ==
    /\ ensureDirExists(fs[Fetching].cur).err = "none"
    /\ ensureDirExists(fs[Fetching].next).err = "none"

\* C39 (as claimed): whatever fails in the fetch of a SyncDir, Download goes on
\* to the next; and every fetch probes the hash.
C39_EverySyncDirProbedInEveryTick ==
    /\ DownloadGoesOn
    /\ [](pc \in InFetch => ProbesHash)

\* C39 (amended): whatever fails in the fetch of a SyncDir, Download goes on to
\* the next; and every fetch of a SyncDir whose two local directories exist or
\* can be created probes the hash, while the fetch of any other SyncDir makes no
\* GET and leaves the staging tree as it is.
C39_EverySyncDirFetchedInEveryTick ==
    /\ DownloadGoesOn
    /\ [](pc \in InFetch =>
             IF HasLocalDirs THEN ProbesHash
             ELSE \A fails \in FetchFailSets :
                     LET r == fetch(fs[Fetching], pub[Fetching], fails, ClockStill(Fetching))
                     IN r.probe = "none" /\ ~r.run /\ r.next = fs[Fetching].next)

\* Download is about to fetch ConfDir, whose directories exist, after the
\* reconciliation of BinDir ended with ErrManifestInconsistent, and the server
\* has a release of ConfDir that is not staged yet.
C39_Witness ==
    /\ pc = "fetch"
    /\ Fetching = "ConfDir"
    /\ HasLocalDirs
    /\ "BinDir" \in apply.inconsistent
    /\ ServesRelease("ConfDir")
    /\ fs["ConfDir"].next.mhash # pub["ConfDir"].hash

\* C40: the mirror is taken for failed iff robocopy could not be run or exited
\* with a status of 8 or more; Apply returns if it is, and goes on if robocopy
\* exited with 0 or with a status from 1 to 7.
C40_FailureIffNotRunOrStatusAtLeast8 ==
    pc # "mirror" /\ res.robocopy.run # <<>> =>
        LET run == res.robocopy.run
            bad == run.kind = "notrun" \/ run.status >= 8
        IN /\ res.robocopy.err # "none" <=> bad
           /\ apply.failed <=> bad
           /\ pc = (IF bad THEN "sleep" ELSE "after")

\* robocopy has exited with the status 7 and Apply has gone on.
C40_Witness ==
    /\ pc = "after"
    /\ res.robocopy.run = Exited(7, FALSE)
    /\ apply.mirrored = <<"BinDir">>
    /\ ~apply.failed

====
